---------------------------- MODULE SystemProxy ----------------------------
(***************************************************************************)
(* internal/systemproxy: what the providers for Windows, KDE and GNOME     *)
(* read and write, one setting at a time.  Settings are a function from    *)
(* keys to values; a client's loopback address is its name, and where host *)
(* and port are separate keys the port is.  Apply and Restore are lists of *)
(* writes, each a key, a value, and whether its failure ends the call.     *)
(***************************************************************************)
EXTENDS Naturals, Sequences

Loopback == "127.0.0.1"

\* splitEndpoint: the empty string gives port 0; a host without a port is an
\* error, ignored, and gives empty strings.  gsettings refuses an empty port, and
\* an empty mode.
splitHost(v) == ""
splitPort(v) == IF v = "" THEN "0" ELSE "unparsable"
Unwritable(w) == w.value = "unparsable" \/ (w.key = "mode" /\ w.value = "")

W(key, value, fatal) == [key |-> key, value |-> value, fatal |-> fatal]

\* The provider that New picks for the desktop d.
Provider(d, windows, kde, gnome) ==
  CASE d = "windows" -> windows
    [] d = "kde" -> kde
    [] d = "gnome" -> gnome

\* The settings that the provider reads or writes.
Keys(d) ==
  Provider(d, {"enable", "server", "pac"}, {"type", "http", "https"},
           {"mode", "httpHost", "httpPort", "httpsHost", "httpsPort", "autoconf"})

\* Snapshot: GNOME's leaves out the ports; the one of Unsupported is an empty
\* object, which Restore of a real provider reads as empty values.
SnapshotKeys(d) == IF d = "gnome" THEN Keys(d) \ {"httpPort", "httpsPort"} ELSE Keys(d)
snapshotOf(d, s) ==
  IF d = "gnome"
  THEN [k \in DOMAIN s \ {"httpPort", "httpsPort"} |-> s[k]] ELSE s
emptySnapshot(d, s) == [k \in DOMAIN snapshotOf(d, s) |-> ""]

\* Apply, for the client at address p.
WindowsApply(p) == <<W("server", p, TRUE), W("enable", "1", TRUE), W("pac", "", FALSE)>>
KDEApply(p) == <<W("type", "1", TRUE), W("http", p, TRUE), W("https", p, TRUE)>>
GnomeApply(p) ==
  <<W("mode", "manual", TRUE), W("httpHost", Loopback, TRUE), W("httpPort", p, TRUE),
    W("httpsHost", Loopback, TRUE), W("httpsPort", p, TRUE)>>
applyWrites(d, p) == Provider(d, WindowsApply(p), KDEApply(p), GnomeApply(p))

\* Restore of a snapshot.
WindowsRestore(b) ==
  <<W("enable", b.enable, TRUE), W("server", b.server, TRUE), W("pac", b.pac, b.pac # "")>>
KDERestore(b) == <<W("type", b.type, TRUE), W("http", b.http, FALSE), W("https", b.https, FALSE)>>
GnomeRestore(b) ==
  <<W("mode", b.mode, TRUE),
    W("httpHost", splitHost(b.httpHost), FALSE), W("httpPort", splitPort(b.httpHost), FALSE),
    W("httpsHost", splitHost(b.httpsHost), FALSE), W("httpsPort", splitPort(b.httpsHost), FALSE),
    W("autoconf", b.autoconf, TRUE)>>
restoreWrites(d, b) == Provider(d, WindowsRestore(b), KDERestore(b), GnomeRestore(b))

\* Matches: whether the settings are the ones Apply leaves for address p.
WindowsMatches(s, p) == s.enable = "1" /\ s.server = p /\ s.pac = ""
KDEMatches(s, p) == s.type = "1" /\ s.http = p /\ s.https = p
GnomeMatches(s, p) ==
  /\ s.mode = "manual" /\ s.autoconf = ""
  /\ s.httpHost = Loopback /\ s.httpsHost = Loopback
alwaysMatches(d, s, p) == TRUE
matches(d, s, p) ==
  Provider(d, WindowsMatches(s, p), KDEMatches(s, p), GnomeMatches(s, p))
=============================================================================
