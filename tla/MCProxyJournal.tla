-------------------------- MODULE MCProxyJournal --------------------------
(* Instances of ProxyJournal for TLC.                                      *)
EXTENDS ProxyJournal

\* Settings without a proxy and with one of the user's own; GNOME's with the URL
\* of a proxy script as well.
WindowsConfigs == {[enable |-> "0", server |-> "", pac |-> ""],
                   [enable |-> "1", server |-> "corp", pac |-> "url"]}
KDEConfigs == {[type |-> "0", http |-> "", https |-> ""],
               [type |-> "1", http |-> "corp", https |-> "corp"]}
GnomeConfigs == {[mode |-> "none", httpHost |-> "", httpPort |-> "0",
                  httpsHost |-> "", httpsPort |-> "0", autoconf |-> ""],
                 [mode |-> "manual", httpHost |-> "corp", httpPort |-> "8080",
                  httpsHost |-> "corp", httpsPort |-> "8080", autoconf |-> ""],
                 [mode |-> "auto", httpHost |-> "", httpPort |-> "0",
                  httpsHost |-> "", httpsPort |-> "0", autoconf |-> "url"]}

TwoAddresses == <<"address1", "address2">>

SomeConfigs ==
  [d \in Desktops |-> Provider(d, WindowsConfigs, KDEConfigs, GnomeConfigs)]
=============================================================================
