------------------------ MODULE ProxyJournalProofs ------------------------
(***************************************************************************)
(* Proofs about ProxyJournal, for any number of processes, any settings a  *)
(* user may choose, and any set of calls that may fail.                    *)
(***************************************************************************)
EXTENDS Integers, ProxyJournal, TLAPS

-----------------------------------------------------------------------------
(* What the providers write                                                *)

Known == {"windows", "kde", "gnome"}
Config(d) == [Keys(d) -> Values(d)]
Snapshot(d) == [SnapshotKeys(d) -> Values(d)]
Write(d) == [key : Keys(d), value : Values(d), fatal : BOOLEAN]

\* The keys of each desktop.
LEMMA KeysAre ==
  /\ Keys("windows") = {"enable", "server", "pac"}
  /\ Keys("kde") = {"type", "http", "https"}
  /\ Keys("gnome") = {"mode", "httpHost", "httpPort", "httpsHost", "httpsPort", "autoconf"}
BY DEF Keys, Provider

LEMMA SnapshotKeysAre ==
  /\ SnapshotKeys("windows") = {"enable", "server", "pac"}
  /\ SnapshotKeys("kde") = {"type", "http", "https"}
  /\ SnapshotKeys("gnome") = {"mode", "httpHost", "httpsHost", "autoconf"}
BY KeysAre DEF SnapshotKeys

\* The values that a client writes, and the user's.
LEMMA ValuesHave ==
  ASSUME NEW d
  PROVE  /\ "" \in Values(d) /\ "0" \in Values(d) /\ "1" \in Values(d) /\ "manual" \in Values(d)
         /\ "unparsable" \in Values(d) /\ Loopback \in Values(d)
         /\ \A i \in 1..Len(Address) : Address[i] \in Values(d)
BY ZenonT(60) DEF Values

LEMMA ConfigType ==
  ASSUME NEW d \in Desktops, NEW c \in Configs[d]
  PROVE  d \in Known /\ c \in Config(d) /\ \A k \in Keys(d) : c[k] # "unparsable"
<1>1. d \in Known /\ c \in [Keys(d) -> STRING] /\ \A k \in Keys(d) : c[k] # "unparsable"
  BY ZenonT(60), JournalAssumption DEF Known
<1>2. ASSUME NEW k \in Keys(d) PROVE c[k] \in Values(d)
  <2>1. c[k] \in {c[x] : x \in Keys(d)}
    BY ZenonT(60)
  <2>2. c[k] \in UNION {{e[x] : x \in Keys(d)} : e \in Configs[d]}
    BY ZenonT(60), <2>1
  <2> QED BY ZenonT(60), <2>2 DEF Values
<1>3. c \in Config(d)
  BY <1>1, <1>2 DEF Config
<1> QED BY ZenonT(60), <1>1, <1>3

\* A snapshot has the keys it should; the empty one does not depend on the
\* settings it is taken from.
LEMMA SnapshotType ==
  ASSUME NEW d \in Known, NEW s \in Config(d)
  PROVE  /\ snapshotOf(d, s) \in Snapshot(d)
         /\ emptySnapshot(d, s) = [k \in SnapshotKeys(d) |-> ""]
         /\ emptySnapshot(d, s) \in Snapshot(d)
<1>1. snapshotOf(d, s) \in Snapshot(d)
  BY DEF snapshotOf, Snapshot, SnapshotKeys, Config
<1>2. emptySnapshot(d, s) = [k \in SnapshotKeys(d) |-> ""]
  BY ZenonT(60), <1>1 DEF emptySnapshot, Snapshot
<1>3. emptySnapshot(d, s) \in Snapshot(d)
  BY ZenonT(60), <1>2, ValuesHave DEF Snapshot
<1> QED BY ZenonT(60), <1>1, <1>2, <1>3

LEMMA WriteType ==
  ASSUME NEW d, NEW k \in Keys(d), NEW v \in Values(d), NEW f \in BOOLEAN
  PROVE  W(k, v, f) \in Write(d)
BY DEF W, Write

\* Apply and Restore are sequences of writes.
LEMMA ApplyIs ==
  ASSUME NEW p
  PROVE  /\ applyWrites("windows", p) = WindowsApply(p) /\ applyWrites("kde", p) = KDEApply(p)
         /\ applyWrites("gnome", p) = GnomeApply(p)
BY DEF applyWrites, Provider

LEMMA RestoreIs ==
  ASSUME NEW b
  PROVE  /\ restoreWrites("windows", b) = WindowsRestore(b) /\ restoreWrites("kde", b) = KDERestore(b)
         /\ restoreWrites("gnome", b) = GnomeRestore(b)
BY DEF restoreWrites, Provider

LEMMA ApplyType ==
  ASSUME NEW d \in Known, NEW p \in Values(d)
  PROVE  applyWrites(d, p) \in Seq(Write(d))
<1>1. CASE d = "windows"
  <2> DEFINE w1 == W("server", p, TRUE)  w2 == W("enable", "1", TRUE)  w3 == W("pac", "", FALSE)
  <2>1. w1 \in Write(d) /\ w2 \in Write(d) /\ w3 \in Write(d)
    BY ZenonT(60), <1>1, KeysAre, ValuesHave, WriteType
  <2>2. applyWrites(d, p) = <<w1, w2, w3>>
    BY ZenonT(60), <1>1, ApplyIs DEF WindowsApply
  <2> HIDE DEF w1, w2, w3
  <2> QED BY <2>1, <2>2
<1>2. CASE d = "kde"
  <2> DEFINE w1 == W("type", "1", TRUE)  w2 == W("http", p, TRUE)  w3 == W("https", p, TRUE)
  <2>1. w1 \in Write(d) /\ w2 \in Write(d) /\ w3 \in Write(d)
    BY ZenonT(60), <1>2, KeysAre, ValuesHave, WriteType
  <2>2. applyWrites(d, p) = <<w1, w2, w3>>
    BY ZenonT(60), <1>2, ApplyIs DEF KDEApply
  <2> HIDE DEF w1, w2, w3
  <2> QED BY <2>1, <2>2
<1>3. CASE d = "gnome"
  <2> DEFINE w1 == W("mode", "manual", TRUE)
             w2 == W("httpHost", Loopback, TRUE)   w3 == W("httpPort", p, TRUE)
             w4 == W("httpsHost", Loopback, TRUE)  w5 == W("httpsPort", p, TRUE)
  <2>1. w1 \in Write(d) /\ w2 \in Write(d) /\ w3 \in Write(d) /\ w4 \in Write(d) /\ w5 \in Write(d)
    BY ZenonT(60), <1>3, KeysAre, ValuesHave, WriteType
  <2>2. applyWrites(d, p) = <<w1, w2, w3, w4, w5>>
    BY ZenonT(60), <1>3, ApplyIs DEF GnomeApply
  <2> HIDE DEF w1, w2, w3, w4, w5
  <2> QED BY <2>1, <2>2
<1> QED BY ZenonT(60), <1>1, <1>2, <1>3 DEF Known

LEMMA RestoreType ==
  ASSUME NEW d \in Known, NEW b \in Snapshot(d)
  PROVE  restoreWrites(d, b) \in Seq(Write(d))
<1>1. CASE d = "windows"
  <2> DEFINE w1 == W("enable", b.enable, TRUE)  w2 == W("server", b.server, TRUE)  w3 == W("pac", b.pac, b.pac # "")
  <2>1. b.enable \in Values(d) /\ b.server \in Values(d) /\ b.pac \in Values(d)
    BY ZenonT(60), <1>1, SnapshotKeysAre DEF Snapshot
  <2>2. w1 \in Write(d) /\ w2 \in Write(d) /\ w3 \in Write(d)
    BY ZenonT(60), <1>1, <2>1, KeysAre, WriteType
  <2>3. restoreWrites(d, b) = <<w1, w2, w3>>
    BY ZenonT(60), <1>1, RestoreIs DEF WindowsRestore
  <2> HIDE DEF w1, w2, w3
  <2> QED BY <2>2, <2>3
<1>2. CASE d = "kde"
  <2> DEFINE w1 == W("type", b.type, TRUE)  w2 == W("http", b.http, FALSE)  w3 == W("https", b.https, FALSE)
  <2>1. b.type \in Values(d) /\ b.http \in Values(d) /\ b.https \in Values(d)
    BY ZenonT(60), <1>2, SnapshotKeysAre DEF Snapshot
  <2>2. w1 \in Write(d) /\ w2 \in Write(d) /\ w3 \in Write(d)
    BY ZenonT(60), <1>2, <2>1, KeysAre, WriteType
  <2>3. restoreWrites(d, b) = <<w1, w2, w3>>
    BY ZenonT(60), <1>2, RestoreIs DEF KDERestore
  <2> HIDE DEF w1, w2, w3
  <2> QED BY <2>2, <2>3
<1>3. CASE d = "gnome"
  <2> DEFINE w1 == W("mode", b.mode, TRUE)
             w2 == W("httpHost", splitHost(b.httpHost), FALSE)
             w3 == W("httpPort", splitPort(b.httpHost), FALSE)
             w4 == W("httpsHost", splitHost(b.httpsHost), FALSE)
             w5 == W("httpsPort", splitPort(b.httpsHost), FALSE)
             w6 == W("autoconf", b.autoconf, TRUE)
  <2>1. b.mode \in Values(d) /\ b.autoconf \in Values(d)
    BY ZenonT(60), <1>3, SnapshotKeysAre DEF Snapshot
  <2>2. \A v : splitHost(v) \in Values(d) /\ splitPort(v) \in Values(d)
    BY ZenonT(60), ValuesHave DEF splitHost, splitPort
  <2>3. w1 \in Write(d) /\ w2 \in Write(d) /\ w3 \in Write(d) /\ w4 \in Write(d) /\ w5 \in Write(d) /\ w6 \in Write(d)
    BY ZenonT(60), <1>3, <2>1, <2>2, KeysAre, WriteType
  <2>4. restoreWrites(d, b) = <<w1, w2, w3, w4, w5, w6>>
    BY ZenonT(60), <1>3, RestoreIs DEF GnomeRestore
  <2> HIDE DEF w1, w2, w3, w4, w5, w6
  <2> QED BY <2>3, <2>4
<1> QED BY ZenonT(60), <1>1, <1>2, <1>3 DEF Known

-----------------------------------------------------------------------------
(* On the way from settings to settings                                    *)

\* The write x sets a key as in t, or is one whose failure ends the call.
Aims(x, t) == x.value = t[x.key] /\ (Unwritable(x) => x.fatal)

\* The writes w, done in order from the settings s, give the settings t.
Toward(d, s, w, t) ==
  /\ \A i \in 1..Len(w) : Aims(w[i], t)
  /\ \A k \in Keys(d) : s[k] = t[k] \/ \E i \in 1..Len(w) : w[i].key = k

\* The settings that Apply leaves, from the user's s, for the address p.
Taken(d, p, s) ==
  [k \in Keys(d) |-> IF k \in {"enable", "type"} THEN "1"
                     ELSE IF k \in {"server", "http", "https", "httpPort", "httpsPort"} THEN p
                     ELSE IF k \in {"httpHost", "httpsHost"} THEN Loopback
                     ELSE IF k = "mode" THEN "manual"
                     ELSE IF k = "pac" THEN "" ELSE s[k]]

LEMMA AimsFatal ==
  ASSUME NEW k, NEW v, NEW t, v = t[k]
  PROVE  Aims(W(k, v, TRUE), t) /\ W(k, v, TRUE).key = k
<1>1. W(k, v, TRUE).key = k /\ W(k, v, TRUE).value = v /\ W(k, v, TRUE).fatal = TRUE
  BY ZenonT(60) DEF W
<1> QED BY ZenonT(60), <1>1 DEF Aims, Unwritable

\* A write whose failure is ignored, or ends the call only sometimes.
LEMMA AimsPlain ==
  ASSUME NEW x, NEW t, x.value = t[x.key], x.value # "unparsable", x.key # "mode"
  PROVE  Aims(x, t)
BY ZenonT(60) DEF Aims, Unwritable

LEMMA PlainIs == ASSUME NEW k, NEW v PROVE W(k, v, FALSE).key = k /\ W(k, v, FALSE).value = v
BY ZenonT(60) DEF W

LEMMA Three ==
  ASSUME NEW a, NEW b, NEW c, NEW w, w = <<a, b, c>>
  PROVE  1..Len(w) = {1, 2, 3} /\ w[1] = a /\ w[2] = b /\ w[3] = c
OBVIOUS

LEMMA Five ==
  ASSUME NEW a, NEW b, NEW c, NEW e, NEW f, NEW w, w = <<a, b, c, e, f>>
  PROVE  1..Len(w) = {1, 2, 3, 4, 5} /\ w[1] = a /\ w[2] = b /\ w[3] = c /\ w[4] = e /\ w[5] = f
OBVIOUS

LEMMA Six ==
  ASSUME NEW a, NEW b, NEW c, NEW e, NEW f, NEW g, NEW w, w = <<a, b, c, e, f, g>>
  PROVE  1..Len(w) = {1, 2, 3, 4, 5, 6} /\ w[1] = a /\ w[2] = b /\ w[3] = c /\ w[4] = e /\ w[5] = f /\ w[6] = g
OBVIOUS

\* Before the first write.
LEMMA TowardThree ==
  ASSUME NEW d, NEW s, NEW t, NEW a, NEW b, NEW c,
         Aims(a, t), Aims(b, t), Aims(c, t), \A k \in Keys(d) : s[k] = t[k] \/ k \in {a.key, b.key, c.key}
  PROVE  Toward(d, s, <<a, b, c>>, t)
<1> DEFINE w == <<a, b, c>>
<1>1. 1..Len(w) = {1, 2, 3} /\ w[1] = a /\ w[2] = b /\ w[3] = c
  BY Three
<1> HIDE DEF w
<1>2. Toward(d, s, w, t)
  BY ZenonT(60), <1>1 DEF Toward
<1> QED BY ZenonT(60), <1>2 DEF w

LEMMA TowardFive ==
  ASSUME NEW d, NEW s, NEW t, NEW a, NEW b, NEW c, NEW e, NEW f,
         Aims(a, t), Aims(b, t), Aims(c, t), Aims(e, t), Aims(f, t),
         \A k \in Keys(d) : s[k] = t[k] \/ k \in {a.key, b.key, c.key, e.key, f.key}
  PROVE  Toward(d, s, <<a, b, c, e, f>>, t)
<1> DEFINE w == <<a, b, c, e, f>>
<1>1. 1..Len(w) = {1, 2, 3, 4, 5} /\ w[1] = a /\ w[2] = b /\ w[3] = c /\ w[4] = e /\ w[5] = f
  BY Five
<1> HIDE DEF w
<1>2. Toward(d, s, w, t)
  BY ZenonT(60), <1>1 DEF Toward
<1> QED BY ZenonT(60), <1>2 DEF w

LEMMA TowardSix ==
  ASSUME NEW d, NEW s, NEW t, NEW a, NEW b, NEW c, NEW e, NEW f, NEW g,
         Aims(a, t), Aims(b, t), Aims(c, t), Aims(e, t), Aims(f, t), Aims(g, t),
         \A k \in Keys(d) : s[k] = t[k] \/ k \in {a.key, b.key, c.key, e.key, f.key, g.key}
  PROVE  Toward(d, s, <<a, b, c, e, f, g>>, t)
<1> DEFINE w == <<a, b, c, e, f, g>>
<1>1. 1..Len(w) = {1, 2, 3, 4, 5, 6} /\ w[1] = a /\ w[2] = b /\ w[3] = c /\ w[4] = e /\ w[5] = f /\ w[6] = g
  BY Six
<1> HIDE DEF w
<1>2. Toward(d, s, w, t)
  BY ZenonT(60), <1>1 DEF Toward
<1> QED BY ZenonT(60), <1>2 DEF w

\* One write done.
LEMMA TowardStep ==
  ASSUME NEW d, NEW s \in Config(d), NEW w \in Seq(Write(d)), NEW t, w # <<>>, Toward(d, s, w, t),
         ~(Unwritable(Head(w)) /\ Head(w).fatal)
  PROVE  /\ ~Unwritable(Head(w)) /\ Head(w) \in Write(d)
         /\ Toward(d, [s EXCEPT ![Head(w).key] = Head(w).value], Tail(w), t)
<1>1. /\ Len(w) \in Nat /\ Len(w) >= 1 /\ Head(w) = w[1] /\ Len(Tail(w)) = Len(w) - 1
      /\ \A i \in 1..Len(Tail(w)) : Tail(w)[i] = w[i + 1]
  OBVIOUS
<1>2. 1 \in 1..Len(w) /\ Head(w) \in Write(d)
  BY <1>1
<1>3. Aims(Head(w), t)
  BY ZenonT(60), <1>1, <1>2 DEF Toward
<1>4. ~Unwritable(Head(w))
  BY ZenonT(60), <1>3 DEF Aims
<1>5. ASSUME NEW i \in 1..Len(Tail(w)) PROVE i + 1 \in 1..Len(w) /\ Tail(w)[i] = w[i + 1]
  BY <1>1
<1>6. ASSUME NEW i \in 1..Len(w), i # 1 PROVE i - 1 \in 1..Len(Tail(w)) /\ Tail(w)[i - 1] = w[i]
  <2>1. i - 1 \in 1..Len(Tail(w)) /\ (i - 1) + 1 = i
    BY <1>1, <1>6
  <2>2. Tail(w)[i - 1] = w[(i - 1) + 1]
    BY ZenonT(60), <1>5, <2>1
  <2> QED BY ZenonT(60), <2>1, <2>2
<1>7. \A i \in 1..Len(Tail(w)) : Aims(Tail(w)[i], t)
  BY ZenonT(60), <1>5 DEF Toward
<1> DEFINE u == [s EXCEPT ![Head(w).key] = Head(w).value]
<1>8. ASSUME NEW k \in Keys(d), u[k] # t[k] PROVE \E i \in 1..Len(Tail(w)) : Tail(w)[i].key = k
  <2>1. u[k] = IF k = Head(w).key THEN Head(w).value ELSE s[k]
    BY ZenonT(60) DEF Config
  <2>2. k # Head(w).key /\ s[k] # t[k]
    BY ZenonT(60), <1>3, <1>8, <2>1 DEF Aims
  <2>3. PICK i \in 1..Len(w) : w[i].key = k
    BY ZenonT(60), <2>2 DEF Toward
  <2>4. i # 1
    BY ZenonT(60), <1>1, <2>2, <2>3
  <2> QED BY ZenonT(60), <1>6, <2>3, <2>4
<1>9. Toward(d, u, Tail(w), t)
  BY ZenonT(60), <1>7, <1>8 DEF Toward
<1> QED BY ZenonT(60), <1>2, <1>4, <1>9

\* All writes done.
LEMMA TowardDone ==
  ASSUME NEW d, NEW s \in Config(d), NEW t \in Config(d), Toward(d, s, <<>>, t)
  PROVE  s = t
<1>1. \A i \in 1..Len(<<>>) : FALSE
  OBVIOUS
<1>2. \A k \in Keys(d) : s[k] = t[k]
  BY ZenonT(60), <1>1 DEF Toward
<1> QED BY <1>2 DEF Config

RestorableAt(d, u) ==
  d = "gnome" => u.httpHost = "" /\ u.httpPort = "0" /\ u.httpsHost = "" /\ u.httpsPort = "0"

\* Whatever the settings are, Restore of a snapshot of the user's goes to them.
LEMMA RestoreToward ==
  ASSUME NEW d \in Known, NEW s, NEW u \in Config(d), \A k \in Keys(d) : u[k] # "unparsable", RestorableAt(d, u)
  PROVE  Toward(d, s, restoreWrites(d, snapshotOf(d, u)), u)
<1>1. CASE d = "windows"
  <2> DEFINE w1 == W("enable", u.enable, TRUE)  w2 == W("server", u.server, TRUE)  w3 == W("pac", u.pac, u.pac # "")
  <2>1. restoreWrites(d, snapshotOf(d, u)) = <<w1, w2, w3>>
    BY ZenonT(60), <1>1, RestoreIs DEF WindowsRestore, snapshotOf
  <2>2. Aims(w1, u) /\ w1.key = "enable" /\ Aims(w2, u) /\ w2.key = "server"
    BY ZenonT(60), AimsFatal
  <2>3. Aims(w3, u) /\ w3.key = "pac"
    <3>1. u["pac"] # "unparsable"
      BY ZenonT(60), <1>1, KeysAre
    <3>2. w3.key = "pac" /\ w3.value = u["pac"]
      BY ZenonT(60) DEF W
    <3> HIDE DEF w3
    <3> QED BY ZenonT(60), <3>1, <3>2, AimsPlain
  <2> HIDE DEF w1, w2, w3
  <2>4. \A k \in Keys(d) : s[k] = u[k] \/ k \in {w1.key, w2.key, w3.key}
    BY ZenonT(60), <1>1, <2>2, <2>3, KeysAre
  <2> QED BY ZenonT(60), <2>1, <2>2, <2>3, <2>4, TowardThree
<1>2. CASE d = "kde"
  <2> DEFINE w1 == W("type", u.type, TRUE)  w2 == W("http", u.http, FALSE)  w3 == W("https", u.https, FALSE)
  <2>1. restoreWrites(d, snapshotOf(d, u)) = <<w1, w2, w3>>
    BY ZenonT(60), <1>2, RestoreIs DEF KDERestore, snapshotOf
  <2>2. Aims(w1, u) /\ w1.key = "type"
    BY ZenonT(60), AimsFatal
  <2>3. u["http"] # "unparsable" /\ u["https"] # "unparsable"
    BY ZenonT(60), <1>2, KeysAre
  <2>4. Aims(w2, u) /\ w2.key = "http" /\ Aims(w3, u) /\ w3.key = "https"
    <3>1. w2.key = "http" /\ w2.value = u["http"] /\ w3.key = "https" /\ w3.value = u["https"]
      BY ZenonT(60), PlainIs
    <3> HIDE DEF w2, w3
    <3> QED BY ZenonT(60), <2>3, <3>1, AimsPlain
  <2> HIDE DEF w1, w2, w3
  <2>5. \A k \in Keys(d) : s[k] = u[k] \/ k \in {w1.key, w2.key, w3.key}
    BY ZenonT(60), <1>2, <2>2, <2>4, KeysAre
  <2> QED BY ZenonT(60), <2>1, <2>2, <2>4, <2>5, TowardThree
<1>3. CASE d = "gnome"
  <2> DEFINE b == snapshotOf(d, u)
             w1 == W("mode", u.mode, TRUE)
             w2 == W("httpHost", "", FALSE)   w3 == W("httpPort", "0", FALSE)
             w4 == W("httpsHost", "", FALSE)  w5 == W("httpsPort", "0", FALSE)
             w6 == W("autoconf", u.autoconf, TRUE)
  <2>1. b.mode = u.mode /\ b.autoconf = u.autoconf /\ b.httpHost = "" /\ b.httpsHost = ""
    <3>1. b = [k \in DOMAIN u \ {"httpPort", "httpsPort"} |-> u[k]]
      BY ZenonT(60), <1>3 DEF snapshotOf
    <3>2. DOMAIN u \ {"httpPort", "httpsPort"} = {"mode", "httpHost", "httpsHost", "autoconf"}
      BY <1>3, KeysAre DEF Config
    <3>3. b = [k \in {"mode", "httpHost", "httpsHost", "autoconf"} |-> u[k]]
      BY ZenonT(60), <3>1, <3>2
    <3>4. u.httpHost = "" /\ u.httpsHost = ""
      BY ZenonT(60), <1>3 DEF RestorableAt
    <3> HIDE DEF b
    <3> QED BY ZenonT(60), <3>3, <3>4
  <2> HIDE DEF b
  <2>2. restoreWrites(d, b) = <<w1, w2, w3, w4, w5, w6>>
    BY ZenonT(60), <1>3, <2>1, RestoreIs DEF GnomeRestore, splitHost, splitPort
  <2>3. Aims(w1, u) /\ w1.key = "mode" /\ Aims(w6, u) /\ w6.key = "autoconf"
    BY ZenonT(60), AimsFatal
  <2>4. u["httpHost"] = "" /\ u["httpPort"] = "0" /\ u["httpsHost"] = "" /\ u["httpsPort"] = "0"
    BY ZenonT(60), <1>3 DEF RestorableAt
  <2>5. Aims(w2, u) /\ w2.key = "httpHost" /\ Aims(w3, u) /\ w3.key = "httpPort"
    <3>1. w2.key = "httpHost" /\ w2.value = "" /\ w3.key = "httpPort" /\ w3.value = "0"
      BY ZenonT(60), PlainIs
    <3> HIDE DEF w2, w3
    <3> QED BY ZenonT(60), <2>4, <3>1, AimsPlain
  <2>6. Aims(w4, u) /\ w4.key = "httpsHost" /\ Aims(w5, u) /\ w5.key = "httpsPort"
    <3>1. w4.key = "httpsHost" /\ w4.value = "" /\ w5.key = "httpsPort" /\ w5.value = "0"
      BY ZenonT(60), PlainIs
    <3> HIDE DEF w4, w5
    <3> QED BY ZenonT(60), <2>4, <3>1, AimsPlain
  <2> HIDE DEF w1, w2, w3, w4, w5, w6
  <2>7. \A k \in Keys(d) : s[k] = u[k] \/ k \in {w1.key, w2.key, w3.key, w4.key, w5.key, w6.key}
    BY ZenonT(60), <1>3, <2>3, <2>5, <2>6, KeysAre
  <2>8. Toward(d, s, restoreWrites(d, b), u)
    BY ZenonT(60), <2>2, <2>3, <2>5, <2>6, <2>7, TowardSix
  <2> QED BY ZenonT(60), <2>8 DEF b
<1> QED BY ZenonT(60), <1>1, <1>2, <1>3 DEF Known

\* Each key of what Apply leaves.
LEMMA TakenType ==
  ASSUME NEW d \in Known, NEW p \in Values(d), NEW u \in Config(d)
  PROVE  Taken(d, p, u) \in Config(d)
BY ZenonT(60), ValuesHave DEF Taken, Config

TakenKeys(d, p, u, t) ==
  /\ d = "windows" => t["server"] = p /\ t["enable"] = "1" /\ t["pac"] = ""
  /\ d = "kde" => t["type"] = "1" /\ t["http"] = p /\ t["https"] = p
  /\ d = "gnome" => /\ t["mode"] = "manual" /\ t["httpHost"] = Loopback /\ t["httpPort"] = p
                    /\ t["httpsHost"] = Loopback /\ t["httpsPort"] = p /\ t["autoconf"] = u["autoconf"]

LEMMA TakenIs ==
  ASSUME NEW d \in Known, NEW p, NEW u
  PROVE  TakenKeys(d, p, u, Taken(d, p, u))
<1>1. CASE d = "windows"
  <2>1. "server" \in Keys(d) /\ "enable" \in Keys(d) /\ "pac" \in Keys(d)
    BY <1>1, KeysAre
  <2> QED BY ZenonT(60), <1>1, <2>1 DEF Taken, TakenKeys
<1>2. CASE d = "kde"
  <2>1. "type" \in Keys(d) /\ "http" \in Keys(d) /\ "https" \in Keys(d)
    BY <1>2, KeysAre
  <2> QED BY ZenonT(60), <1>2, <2>1 DEF Taken, TakenKeys
<1>3. CASE d = "gnome"
  <2>1. /\ "mode" \in Keys(d) /\ "httpHost" \in Keys(d) /\ "httpPort" \in Keys(d)
        /\ "httpsHost" \in Keys(d) /\ "httpsPort" \in Keys(d) /\ "autoconf" \in Keys(d)
    BY <1>3, KeysAre
  <2> QED BY ZenonT(60), <1>3, <2>1 DEF Taken, TakenKeys
<1> QED BY ZenonT(60), <1>1, <1>2, <1>3 DEF Known

\* Apply goes from the user's settings to those.
LEMMA ApplyToward ==
  ASSUME NEW d \in Known, NEW p, NEW u
  PROVE  Toward(d, u, applyWrites(d, p), Taken(d, p, u))
<1> DEFINE t == Taken(d, p, u)
<1>0. TakenKeys(d, p, u, t)
  BY ZenonT(60), TakenIs
<1> HIDE DEF t
<1>1. CASE d = "windows"
  <2> DEFINE w1 == W("server", p, TRUE)  w2 == W("enable", "1", TRUE)  w3 == W("pac", "", FALSE)
  <2>1. applyWrites(d, p) = <<w1, w2, w3>>
    BY ZenonT(60), <1>1, ApplyIs DEF WindowsApply
  <2>2. Aims(w1, t) /\ w1.key = "server" /\ Aims(w2, t) /\ w2.key = "enable"
    BY ZenonT(60), <1>0, <1>1, AimsFatal DEF TakenKeys
  <2>3. Aims(w3, t) /\ w3.key = "pac"
    <3>1. w3.key = "pac" /\ w3.value = ""
      BY ZenonT(60), PlainIs
    <3> HIDE DEF w3
    <3>2. t["pac"] = ""
      BY ZenonT(60), <1>0, <1>1 DEF TakenKeys
    <3> QED BY ZenonT(60), <3>1, <3>2, AimsPlain
  <2> HIDE DEF w1, w2, w3
  <2>4. \A k \in Keys(d) : u[k] = t[k] \/ k \in {w1.key, w2.key, w3.key}
    BY ZenonT(60), <1>1, <2>2, <2>3, KeysAre
  <2> QED BY ZenonT(60), <2>1, <2>2, <2>3, <2>4, TowardThree DEF t
<1>2. CASE d = "kde"
  <2> DEFINE w1 == W("type", "1", TRUE)  w2 == W("http", p, TRUE)  w3 == W("https", p, TRUE)
  <2>1. applyWrites(d, p) = <<w1, w2, w3>>
    BY ZenonT(60), <1>2, ApplyIs DEF KDEApply
  <2>2. Aims(w1, t) /\ w1.key = "type" /\ Aims(w2, t) /\ w2.key = "http" /\ Aims(w3, t) /\ w3.key = "https"
    BY ZenonT(60), <1>0, <1>2, AimsFatal DEF TakenKeys
  <2> HIDE DEF w1, w2, w3
  <2>3. \A k \in Keys(d) : u[k] = t[k] \/ k \in {w1.key, w2.key, w3.key}
    BY ZenonT(60), <1>2, <2>2, KeysAre
  <2> QED BY ZenonT(60), <2>1, <2>2, <2>3, TowardThree DEF t
<1>3. CASE d = "gnome"
  <2> DEFINE w1 == W("mode", "manual", TRUE)
             w2 == W("httpHost", Loopback, TRUE)   w3 == W("httpPort", p, TRUE)
             w4 == W("httpsHost", Loopback, TRUE)  w5 == W("httpsPort", p, TRUE)
  <2>1. applyWrites(d, p) = <<w1, w2, w3, w4, w5>>
    BY ZenonT(60), <1>3, ApplyIs DEF GnomeApply
  <2>2. Aims(w1, t) /\ w1.key = "mode" /\ Aims(w2, t) /\ w2.key = "httpHost" /\ Aims(w3, t) /\ w3.key = "httpPort"
    BY ZenonT(60), <1>0, <1>3, AimsFatal DEF TakenKeys
  <2>3. Aims(w4, t) /\ w4.key = "httpsHost" /\ Aims(w5, t) /\ w5.key = "httpsPort"
    BY ZenonT(60), <1>0, <1>3, AimsFatal DEF TakenKeys
  <2> HIDE DEF w1, w2, w3, w4, w5
  <2>4. \A k \in Keys(d) : u[k] = t[k] \/ k \in {w1.key, w2.key, w3.key, w4.key, w5.key}
    BY ZenonT(60), <1>0, <1>3, <2>2, <2>3, KeysAre DEF TakenKeys
  <2> QED BY ZenonT(60), <2>1, <2>2, <2>3, <2>4, TowardFive DEF t
<1> QED BY ZenonT(60), <1>1, <1>2, <1>3 DEF Known

\* Matches recognises what Apply left, on GNOME where no autoconfig URL was set.
LEMMA TakenMatches ==
  ASSUME NEW d \in Known, NEW p, NEW u, d = "gnome" => u["autoconf"] = ""
  PROVE  matches(d, Taken(d, p, u), p)
<1> DEFINE t == Taken(d, p, u)
<1>0. TakenKeys(d, p, u, t)
  BY ZenonT(60), TakenIs
<1> HIDE DEF t
<1>1. d = "windows" => WindowsMatches(t, p)
  BY ZenonT(60), <1>0 DEF TakenKeys, WindowsMatches
<1>2. d = "kde" => KDEMatches(t, p)
  BY ZenonT(60), <1>0 DEF TakenKeys, KDEMatches
<1>3. d = "gnome" => GnomeMatches(t, p)
  BY ZenonT(60), <1>0 DEF TakenKeys, GnomeMatches
<1>4. matches(d, t, p)
  BY ZenonT(60), <1>1, <1>2, <1>3 DEF matches, Provider, Known
<1> QED BY ZenonT(60), <1>4 DEF t

-----------------------------------------------------------------------------
(* The inductive invariant                                                 *)

\* Which flags go with which steps, and which steps the two threads are never in
\* at once.
ControlOK ==
  /\ main # "off" => proc \in 1..Len(Address)
  /\ hasJournal => started /\ ~headless /\ main \in {"prompt", "exited", "crashed"} \cup Shutting
  /\ main \in {"recovering", "connecting"} => ~started
  /\ main \in {"listening", "journaling", "applying"} => started
  /\ "draining" \in {main, sig} \/ "restoring" \in {main, sig} => closed
  /\ "restoring" \in {main, sig} => hasJournal
  /\ ~(main \in {"draining", "restoring"} /\ sig \in {"draining", "restoring"})
  /\ ~Signalled /\ closed => main \in {"draining", "restoring", "exited", "crashed"}

\* While nothing but a Restore failed and the user changed nothing:
Undisturbed == changes = 0 /\ mishaps \subseteq {"restore failed"} /\ Restorable

\* the journal is the user's settings where it is needed, and the writes that are
\* left lead to the settings they should.
JournalOK ==
  /\ journal \in {NoJournal, snapshotOf(desktop, user), emptySnapshot(desktop, user)}
  /\ OriginalNeverLost
  /\ main \in {"connecting", "listening", "journaling"} => journal = NoJournal
  /\ main = "journaling" =>
       before = IF headless THEN emptySnapshot(desktop, user) ELSE snapshotOf(desktop, user)
  /\ main = "applying" /\ headless => settings = user /\ work = <<>>
  /\ main = "applying" /\ ~headless =>
       /\ journal = snapshotOf(desktop, user) /\ before = snapshotOf(desktop, user)
       /\ Toward(desktop, settings, work, Taken(desktop, Address[proc], user))
  /\ main = "recovering" => journal = snapshotOf(desktop, user) /\ Toward(desktop, settings, work, user)
  /\ hasJournal => before = snapshotOf(desktop, user) /\ journal = snapshotOf(desktop, user)
  /\ "restoring" \in {main, sig} => Toward(desktop, settings, work, user)
  /\ started /\ ~hasJournal /\ main \notin {"applying", "crashed"} => settings = user
  /\ hasJournal /\ ~Signalled /\ main \in {"prompt", "shutdown", "draining"} =>
       settings = Taken(desktop, Address[proc], user)

JInv == TypeOK /\ ControlOK /\ (Undisturbed => JournalOK) /\ GracefulExitRestores

-----------------------------------------------------------------------------
(* Types                                                                   *)

\* The parts of TypeOK.
DataT ==
  /\ desktop \in Desktops /\ user \in Configs[desktop] /\ settings \in Config(desktop)
  /\ journal # NoJournal => journal \in Snapshot(desktop)
  /\ work \in Seq(Write(desktop)) /\ before \in Snapshot(desktop)
CountT == changes \in 0..MaxChanges /\ proc \in 0..Len(Address)
PlaceT ==
  /\ main \in MainSteps /\ sig \in {"waiting", "done"} \cup Shutting
  /\ headless \in BOOLEAN /\ started \in BOOLEAN /\ closed \in BOOLEAN /\ hasJournal \in BOOLEAN
  /\ mishaps \subseteq Mishaps
WorkT == work # <<>> => main \in {"recovering", "applying", "crashed"} \/ "restoring" \in {main, sig}

LEMMA Parts == TypeOK <=> DataT /\ CountT /\ PlaceT /\ WorkT
BY ZenonT(60) DEF TypeOK, DataT, CountT, PlaceT, WorkT, IsSnapshot, Config, Snapshot, Write

\* What the types say of the desktop and the user's settings.
LEMMA Facts ==
  ASSUME DataT
  PROVE  /\ desktop \in Known /\ user \in Config(desktop) /\ \A k \in Keys(desktop) : user[k] # "unparsable"
         /\ snapshotOf(desktop, user) \in Snapshot(desktop)
         /\ snapshotOf(desktop, settings) \in Snapshot(desktop)
         /\ emptySnapshot(desktop, settings) \in Snapshot(desktop)
         /\ emptySnapshot(desktop, settings) = emptySnapshot(desktop, user)
         /\ snapshotOf(desktop, user) # NoJournal /\ emptySnapshot(desktop, user) # NoJournal
<1>1. desktop \in Known /\ user \in Config(desktop) /\ \A k \in Keys(desktop) : user[k] # "unparsable"
  BY ZenonT(60), ConfigType DEF DataT
<1>2. settings \in Config(desktop)
  BY ZenonT(60) DEF DataT
<1>3. /\ snapshotOf(desktop, user) \in Snapshot(desktop) /\ snapshotOf(desktop, settings) \in Snapshot(desktop)
      /\ emptySnapshot(desktop, settings) \in Snapshot(desktop) /\ emptySnapshot(desktop, user) \in Snapshot(desktop)
  BY ZenonT(60), <1>1, <1>2, SnapshotType
<1>4. emptySnapshot(desktop, settings) = emptySnapshot(desktop, user)
  BY ZenonT(60), <1>1, <1>2, SnapshotType
<1>5. NoJournal \notin Snapshot(desktop)
  BY ZenonT(60), JournalAssumption DEF DataT, Snapshot
<1> QED BY ZenonT(60), <1>1, <1>3, <1>4, <1>5

\* The work left after a write.
LEMMA WorkTail ==
  ASSUME NEW S, NEW w \in Seq(S), w # <<>>
  PROVE  Tail(w) \in Seq(S) /\ Head(w) \in S
OBVIOUS

LEMMA EmptyWork == ASSUME NEW S PROVE <<>> \in Seq(S)
OBVIOUS

LEMMA DataStep ==
  ASSUME DataT, PlaceT, ControlOK, [Next]_vars
  PROVE  DataT'
<1>0. /\ desktop \in Known /\ snapshotOf(desktop, settings) \in Snapshot(desktop)
      /\ emptySnapshot(desktop, settings) \in Snapshot(desktop) /\ <<>> \in Seq(Write(desktop))
  BY ZenonT(60), Facts, EmptyWork
<1>1. CASE Launch
  BY ZenonT(60), <1>0, <1>1 DEF Launch, DataT, world
<1>2. CASE UserChange
  <2>1. user' \in Configs[desktop] /\ settings' = user' /\ desktop' = desktop
    BY ZenonT(60), <1>2 DEF UserChange
  <2>2. user' \in Config(desktop)
    BY ZenonT(60), <2>1, ConfigType DEF DataT
  <2> QED BY ZenonT(60), <1>2, <2>1, <2>2 DEF UserChange, DataT
<1>3. CASE WriteDone
  <2>1. Tail(work) \in Seq(Write(desktop)) /\ Head(work) \in Write(desktop)
    BY ZenonT(60), <1>3, WorkTail DEF WriteDone, DataT
  <2>2. settings' \in Config(desktop)
    <3>1. Head(work).key \in Keys(desktop) /\ Head(work).value \in Values(desktop)
      BY <2>1 DEF Write
    <3>2. ASSUME NEW s \in Config(desktop), NEW k \in Keys(desktop), NEW v \in Values(desktop)
          PROVE  [s EXCEPT ![k] = v] \in Config(desktop)
      BY DEF Config
    <3>3. [settings EXCEPT ![Head(work).key] = Head(work).value] \in Config(desktop)
      BY ZenonT(60), <3>1, <3>2 DEF DataT
    <3> QED BY ZenonT(60), <1>3, <3>3 DEF WriteDone, DataT
  <2> QED BY ZenonT(60), <1>3, <2>1, <2>2 DEF WriteDone, DataT, world
<1>4. CASE WriteIgnored
  <2>1. Tail(work) \in Seq(Write(desktop))
    BY ZenonT(60), <1>4, WorkTail DEF WriteIgnored, DataT
  <2> QED BY ZenonT(60), <1>4, <2>1 DEF WriteIgnored, DataT, world
<1>5. CASE Start
  <2>1. ASSUME journal # NoJournal PROVE restoreWrites(desktop, journal) \in Seq(Write(desktop))
    BY ZenonT(60), <1>0, <2>1, RestoreType DEF DataT
  <2> QED BY ZenonT(60), <1>0, <1>5, <2>1 DEF Start, recoverJournal, Restore, DataT, world
<1>6. CASE WriteJournal
  <2>1. Address[proc] \in Values(desktop)
    BY ZenonT(60), <1>6, ValuesHave DEF WriteJournal, MainTo, ControlOK
  <2>2. applyWrites(desktop, Address[proc]) \in Seq(Write(desktop))
    BY ZenonT(60), <1>0, <2>1, ApplyType
  <2> QED BY ZenonT(60), <1>0, <1>6, <2>2 DEF WriteJournal, saveJournal, DataT, world
<1>7. CASE CheckProxy
  <2>1. restoreWrites(desktop, before) \in Seq(Write(desktop))
    BY ZenonT(60), <1>0, RestoreType DEF DataT
  <2> QED BY ZenonT(60), <1>0, <1>7, <2>1 DEF CheckProxy, Restore, DataT, world
<1>8. CASE TakeSnapshot
  BY ZenonT(60), <1>0, <1>8 DEF TakeSnapshot, DataT, world
<1>9. CASE Crash \/ Quit \/ Signal \/ Connected \/ ConnectFails \/ SnapshotFails \/ Applied \/ Closed \/ SkipRestore
  BY ZenonT(60), <1>9 DEF Crash, Quit, Signal, Connected, ConnectFails, SnapshotFails, Applied, Closed, SkipRestore,
         DataT, world
<1>10. CASE RecoverFails \/ Recovered \/ ApplyFails \/ RestoreFails \/ Restored
  BY ZenonT(60), <1>0, <1>10 DEF RecoverFails, Recovered, ApplyFails, RestoreFails, Restored, DataT, world
<1>11. CASE UNCHANGED vars
  BY ZenonT(60), <1>11 DEF vars, DataT, world
<1> QED BY ZenonT(60), <1>1, <1>2, <1>3, <1>4, <1>5, <1>6, <1>7, <1>8, <1>9, <1>10, <1>11 DEF Next, Step

LEMMA PlaceStep ==
  ASSUME PlaceT, [Next]_vars
  PROVE  PlaceT'
<1> USE DEF PlaceT, MainSteps, Shutting
<1>1. CASE Launch
  BY ZenonT(60), <1>1 DEF Launch, MainTo, self, flags
<1>2. CASE Crash
  BY ZenonT(60), <1>2 DEF Crash, self, flags
<1>3. CASE UserChange
  BY ZenonT(60), <1>3 DEF UserChange, self, flags
<1>4. CASE Quit \/ Signal
  BY ZenonT(60), <1>4 DEF Quit, Signal, MainTo, self, flags
<1>5. CASE Start
  BY ZenonT(60), <1>5 DEF Start, recoverJournal, MainTo, Happens, Mishaps, self, flags
<1>6. CASE WriteDone
  BY ZenonT(60), <1>6 DEF WriteDone, self, flags
<1>7. CASE WriteIgnored
  BY ZenonT(60), <1>7 DEF WriteIgnored, Happens, Mishaps, self, flags
<1>8. CASE RecoverFails \/ Recovered
  BY ZenonT(60), <1>8 DEF RecoverFails, Recovered, MainTo, Happens, Mishaps, self, flags
<1>9. CASE Connected \/ ConnectFails
  BY ZenonT(60), <1>9 DEF Connected, ConnectFails, MainTo, self, flags
<1>10. CASE TakeSnapshot \/ SnapshotFails
  BY ZenonT(60), <1>10 DEF TakeSnapshot, SnapshotFails, MainTo, self, flags
<1>11. CASE WriteJournal \/ Applied
  BY ZenonT(60), <1>11 DEF WriteJournal, Applied, MainTo, Happens, Mishaps, self, flags
<1>12. CASE ApplyFails
  BY ZenonT(60), <1>12 DEF ApplyFails, MainTo, Happens, Mishaps, self, flags
<1>13. CASE Closed \/ CheckProxy
  BY ZenonT(60), <1>13 DEF Closed, CheckProxy, ThreadTo, MainTo, self, flags
<1>14. CASE SkipRestore
  BY ZenonT(60), <1>14 DEF SkipRestore, ThreadTo, MainTo, Happens, Mishaps, self, flags
<1>15. CASE RestoreFails
  BY ZenonT(60), <1>15 DEF RestoreFails, ThreadTo, MainTo, Happens, Mishaps, self, flags
<1>16. CASE Restored
  BY ZenonT(60), <1>16 DEF Restored, resetFlag, ThreadTo, MainTo, self, flags
<1>17. CASE UNCHANGED vars
  BY ZenonT(60), <1>17 DEF vars, self, flags
<1> HIDE DEF PlaceT, MainSteps, Shutting
<1> QED
  BY ZenonT(60), <1>1, <1>2, <1>3, <1>4, <1>5, <1>6, <1>7, <1>8, <1>9, <1>10, <1>11, <1>12, <1>13, <1>14, <1>15, <1>16, <1>17
  DEF Next, Step

LEMMA CountStep ==
  ASSUME CountT, [Next]_vars
  PROVE  CountT' /\ (changes' = 0 => changes = 0 /\ user' = user) /\ desktop' = desktop /\ mishaps \subseteq mishaps'
<1>0. MaxChanges \in Nat /\ Len(Address) \in Nat
  BY JournalAssumption
<1>1. CASE Launch
  <2>1. proc < Len(Address) /\ proc' = proc + 1 /\ UNCHANGED <<desktop, user, changes, mishaps>>
    BY ZenonT(60), <1>1 DEF Launch, world
  <2> QED BY <1>0, <2>1 DEF CountT
<1>2. CASE UserChange
  <2>1. changes < MaxChanges /\ changes' = changes + 1 /\ UNCHANGED <<desktop, proc, mishaps>>
    BY ZenonT(60), <1>2 DEF UserChange, self
  <2> QED BY <1>0, <2>1 DEF CountT
<1>3. CASE UNCHANGED <<desktop, user, changes, proc>> /\ mishaps \subseteq mishaps'
  BY ZenonT(60), <1>3 DEF CountT
<1>4. Crash \/ Quit \/ Signal \/ Start \/ WriteDone \/ WriteIgnored \/ UNCHANGED vars
        => UNCHANGED <<desktop, user, changes, proc>> /\ mishaps \subseteq mishaps'
  BY ZenonT(60) DEF Crash, Quit, Signal, Start, recoverJournal, WriteDone, WriteIgnored, Happens, world, self, vars
<1>5. RecoverFails \/ Recovered \/ Connected \/ ConnectFails \/ TakeSnapshot \/ SnapshotFails \/ WriteJournal
        \/ Applied \/ ApplyFails => UNCHANGED <<desktop, user, changes, proc>> /\ mishaps \subseteq mishaps'
  BY ZenonT(60) DEF RecoverFails, Recovered, Connected, ConnectFails, TakeSnapshot, SnapshotFails, WriteJournal,
         Applied, ApplyFails, Happens, world, self
<1>6. Closed \/ CheckProxy \/ SkipRestore \/ RestoreFails \/ Restored
        => UNCHANGED <<desktop, user, changes, proc>> /\ mishaps \subseteq mishaps'
  BY ZenonT(60) DEF Closed, CheckProxy, SkipRestore, RestoreFails, Restored, Happens, world, self
<1> QED BY ZenonT(60), <1>1, <1>2, <1>3, <1>4, <1>5, <1>6 DEF Next, Step

LEMMA WorkStep ==
  ASSUME WorkT, PlaceT, ControlOK, [Next]_vars
  PROVE  WorkT'
<1>1. CASE Launch \/ Crash \/ UserChange \/ Quit \/ Signal
  BY ZenonT(60), <1>1 DEF Launch, Crash, UserChange, Quit, Signal, MainTo, WorkT
<1>2. CASE Start
  BY ZenonT(60), <1>2 DEF Start, recoverJournal, MainTo, WorkT
<1>3. CASE WriteDone \/ WriteIgnored
  BY ZenonT(60), <1>3 DEF WriteDone, WriteIgnored, WorkT
<1>4. CASE RecoverFails \/ Recovered \/ ApplyFails \/ Applied \/ RestoreFails
  BY ZenonT(60), <1>4 DEF RecoverFails, Recovered, ApplyFails, Applied, RestoreFails, WorkT
<1>5. CASE Connected \/ ConnectFails \/ TakeSnapshot \/ SnapshotFails \/ WriteJournal
  BY ZenonT(60), <1>5 DEF Connected, ConnectFails, TakeSnapshot, SnapshotFails, WriteJournal, MainTo, WorkT
<1>6. CASE Closed \/ SkipRestore \/ CheckProxy
  BY ZenonT(60), <1>6 DEF Closed, SkipRestore, CheckProxy, ThreadTo, MainTo, WorkT
<1>7. CASE Restored
  BY ZenonT(60), <1>7 DEF Restored, restoreDone, WorkT
<1>8. CASE UNCHANGED vars
  BY ZenonT(60), <1>8 DEF vars, WorkT
<1> QED BY ZenonT(60), <1>1, <1>2, <1>3, <1>4, <1>5, <1>6, <1>7, <1>8 DEF Next, Step

LEMMA ControlStep ==
  ASSUME PlaceT, CountT, ControlOK, [Next]_vars
  PROVE  ControlOK'
<1> USE DEF Shutting, Signalled
<1>1. CASE Launch
  <2>1. proc + 1 \in 1..Len(Address)
    <3>1. proc \in Nat /\ Len(Address) \in Nat /\ proc < Len(Address)
      BY <1>1, JournalAssumption DEF Launch, CountT
    <3> QED BY <3>1
  <2> QED BY ZenonT(60), <1>1, <2>1 DEF Launch, ControlOK
<1>2. CASE Crash
  BY ZenonT(60), <1>2 DEF Crash, Runs, ControlOK, self, flags
<1>3. CASE UserChange \/ WriteDone \/ WriteIgnored
  <2>1. UNCHANGED <<proc, headless, main, sig, started, closed, hasJournal>>
    BY ZenonT(60), <1>3 DEF UserChange, WriteDone, WriteIgnored, self, flags
  <2> QED BY ZenonT(60), <2>1 DEF ControlOK
<1>4. CASE Quit
  BY ZenonT(60), <1>4 DEF Quit, MainTo, ControlOK, self, flags
<1>5. CASE Signal
  BY ZenonT(60), <1>5 DEF Signal, ControlOK, self, flags
<1>6. CASE Start
  <2>1. /\ main = "prompt" /\ main' \in {"connecting", "recovering"} /\ ~started /\ ~closed
        /\ UNCHANGED <<proc, headless, sig, started, closed, hasJournal>>
    BY ZenonT(60), <1>6 DEF Start, recoverJournal, MainTo, self, flags
  <2> QED BY ZenonT(60), <2>1 DEF ControlOK
<1>7. CASE RecoverFails \/ Recovered
  <2>1. CASE RecoverFails
    BY ZenonT(60), <2>1 DEF RecoverFails, MainTo, ControlOK, self, flags
  <2>2. CASE Recovered
    BY ZenonT(60), <2>2 DEF Recovered, MainTo, ControlOK, self, flags
  <2> QED BY ZenonT(60), <1>7, <2>1, <2>2
<1>8. CASE Connected \/ ConnectFails
  <2>1. CASE Connected
    BY ZenonT(60), <2>1 DEF Connected, MainTo, ControlOK, self
  <2>2. CASE ConnectFails
    BY ZenonT(60), <2>2 DEF ConnectFails, MainTo, ControlOK, self
  <2> QED BY ZenonT(60), <1>8, <2>1, <2>2
<1>9. CASE TakeSnapshot \/ SnapshotFails
  <2>1. CASE TakeSnapshot
    BY ZenonT(60), <2>1 DEF TakeSnapshot, MainTo, ControlOK, self, flags
  <2>2. CASE SnapshotFails
    BY ZenonT(60), <2>2 DEF SnapshotFails, MainTo, ControlOK, self, flags
  <2> QED BY ZenonT(60), <1>9, <2>1, <2>2
<1>10. CASE WriteJournal \/ ApplyFails
  <2>1. CASE WriteJournal
    BY ZenonT(60), <2>1 DEF WriteJournal, MainTo, ControlOK, self, flags
  <2>2. CASE ApplyFails
    BY ZenonT(60), <2>2 DEF ApplyFails, MainTo, ControlOK, self, flags
  <2> QED BY ZenonT(60), <1>10, <2>1, <2>2
<1>11. CASE Applied
  BY ZenonT(60), <1>11 DEF Applied, MainTo, ControlOK, self
<1>12. CASE Closed
  <2>0. UNCHANGED <<proc, headless, started, hasJournal>> /\ closed' = TRUE
    BY ZenonT(60), <1>12 DEF Closed, self
  <2>1. CASE main = "shutdown" /\ closed /\ main' = "exited" /\ sig' = sig
    BY ZenonT(60), <2>0, <2>1 DEF ControlOK
  <2>2. CASE main = "shutdown" /\ ~closed /\ main' = "draining" /\ sig' = sig
    BY ZenonT(60), <2>0, <2>2 DEF ControlOK
  <2>3. CASE sig = "shutdown" /\ closed /\ sig' = "done" /\ main' = main
    BY ZenonT(60), <2>0, <2>3 DEF ControlOK
  <2>4. CASE sig = "shutdown" /\ ~closed /\ sig' = "draining" /\ main' = main
    BY ZenonT(60), <2>0, <2>4 DEF ControlOK
  <2> QED BY ZenonT(60), <1>12, <2>1, <2>2, <2>3, <2>4 DEF Closed, ThreadTo, MainTo
<1>13. CASE CheckProxy
  <2>0. UNCHANGED <<proc, headless, started, closed, hasJournal>> /\ hasJournal
    BY ZenonT(60), <1>13 DEF CheckProxy, restoring, self, flags
  <2>1. CASE main = "draining" /\ main' = "restoring" /\ sig' = sig
    BY ZenonT(60), <2>0, <2>1 DEF ControlOK
  <2>2. CASE sig = "draining" /\ sig' = "restoring" /\ main' = main
    BY ZenonT(60), <2>0, <2>2 DEF ControlOK
  <2> QED BY ZenonT(60), <1>13, <2>1, <2>2 DEF CheckProxy, ThreadTo, MainTo
<1>14. CASE SkipRestore
  <2>0. UNCHANGED <<proc, headless, started, closed, hasJournal>>
    BY ZenonT(60), <1>14 DEF SkipRestore, self, flags
  <2>1. CASE main = "draining" /\ main' = "exited" /\ sig' = sig
    BY ZenonT(60), <2>0, <2>1 DEF ControlOK
  <2>2. CASE sig = "draining" /\ sig' = "done" /\ main' = main
    BY ZenonT(60), <2>0, <2>2 DEF ControlOK
  <2> QED BY ZenonT(60), <1>14, <2>1, <2>2 DEF SkipRestore, ThreadTo, MainTo
<1>15. CASE RestoreFails
  <2>0. UNCHANGED <<proc, headless, started, closed, hasJournal>>
    BY ZenonT(60), <1>15 DEF RestoreFails, self, flags
  <2>1. CASE main = "restoring" /\ main' = "exited" /\ sig' = sig
    BY ZenonT(60), <2>0, <2>1 DEF ControlOK
  <2>2. CASE sig = "restoring" /\ sig' = "done" /\ main' = main
    BY ZenonT(60), <2>0, <2>2 DEF ControlOK
  <2> QED BY ZenonT(60), <1>15, <2>1, <2>2 DEF RestoreFails, ThreadTo, MainTo
<1>16. CASE Restored
  <2>0. UNCHANGED <<proc, headless, started, closed>> /\ hasJournal' = FALSE
    BY ZenonT(60), <1>16 DEF Restored, resetFlag, self
  <2>1. CASE main = "restoring" /\ main' = "exited" /\ sig' = sig
    BY ZenonT(60), <2>0, <2>1 DEF ControlOK
  <2>2. CASE sig = "restoring" /\ sig' = "done" /\ main' = main
    BY ZenonT(60), <2>0, <2>2 DEF ControlOK
  <2> QED BY ZenonT(60), <1>16, <2>1, <2>2 DEF Restored, ThreadTo, MainTo
<1>17. CASE UNCHANGED vars
  BY ZenonT(60), <1>17 DEF vars, ControlOK, self, flags
<1> QED
  BY ZenonT(60), <1>1, <1>2, <1>3, <1>4, <1>5, <1>6, <1>7, <1>8, <1>9, <1>10, <1>11, <1>12, <1>13, <1>14, <1>15,
     <1>16, <1>17 DEF Next, Step

LEMMA Start0 == Init => TypeOK /\ ControlOK
<1> SUFFICES ASSUME Init PROVE TypeOK /\ ControlOK
  OBVIOUS
<1>1. settings \in Config(desktop) /\ desktop \in Known
  BY ZenonT(60), ConfigType DEF Init
<1>2. before \in Snapshot(desktop)
  BY ZenonT(60), <1>1, SnapshotType DEF Init
<1>3. DataT
  BY ZenonT(60), <1>1, <1>2, EmptyWork DEF Init, DataT
<1>4. CountT
  BY JournalAssumption DEF Init, CountT
<1>5. PlaceT /\ WorkT
  BY ZenonT(60) DEF Init, PlaceT, WorkT, MainSteps
<1>6. ControlOK
  BY ZenonT(60) DEF Init, ControlOK, Signalled
<1> QED BY ZenonT(60), <1>3, <1>4, <1>5, <1>6, Parts

LEMMA Typed == TypeOK /\ ControlOK /\ [Next]_vars => TypeOK' /\ ControlOK'
<1>1. TypeOK' <=> DataT' /\ CountT' /\ PlaceT' /\ WorkT'
  BY Parts, PTL
<1> QED BY ZenonT(60), <1>1, Parts, DataStep, PlaceStep, CountStep, WorkStep, ControlStep

\* Every variable keeps its type, whatever is killed, fails or is signalled when:
\* the settings hold nothing but what the user chose and what a client writes,
\* the journal is a snapshot or is not there, and writes are left only while
\* Start recovers or applies or a Shutdown restores.
THEOREM TypeCorrect == Spec => []TypeOK
<1>1. TypeOK /\ ControlOK /\ [Next]_vars => (TypeOK /\ ControlOK)'
  BY Typed
<1> QED BY Start0, <1>1, PTL DEF Spec

-----------------------------------------------------------------------------
(* The journal                                                             *)

\* What an undisturbed step starts from.
LEMMA StillUndisturbed ==
  ASSUME CountT, [Next]_vars, Undisturbed'
  PROVE  /\ Undisturbed /\ ~UserChange /\ UNCHANGED <<desktop, user>>
         /\ mishaps' \subseteq {"restore failed"}
<1>1. /\ changes' = 0 => changes = 0 /\ user' = user
      /\ desktop' = desktop /\ mishaps \subseteq mishaps'
  BY ZenonT(60), CountStep
<1>2. changes' = 0 /\ mishaps' \subseteq {"restore failed"} /\ Restorable'
  BY ZenonT(60) DEF Undisturbed
<1>3. Restorable
  BY ZenonT(60), <1>1, <1>2 DEF Restorable
<1>4. changes = 0 => changes + 1 # 0
  OBVIOUS
<1>5. ~UserChange
  BY ZenonT(60), <1>1, <1>2, <1>4 DEF UserChange
<1> QED BY ZenonT(60), <1>1, <1>2, <1>3, <1>5 DEF Undisturbed

LEMMA JournalStep ==
  ASSUME TypeOK, ControlOK, JournalOK, Undisturbed, [Next]_vars, Undisturbed'
  PROVE  JournalOK'
<1> DEFINE original == snapshotOf(desktop, user)
           empty == emptySnapshot(desktop, user)
           taken == Taken(desktop, Address[proc], user)
<1>0. DataT /\ CountT /\ PlaceT /\ WorkT
  BY Parts
<1>a. ~UserChange /\ UNCHANGED <<desktop, user>> /\ mishaps' \subseteq {"restore failed"}
  BY ZenonT(60), <1>0, StillUndisturbed
<1>b. /\ desktop \in Known /\ user \in Config(desktop) /\ settings \in Config(desktop)
      /\ original # NoJournal /\ empty # NoJournal
      /\ emptySnapshot(desktop, settings) = empty
  BY ZenonT(60), <1>0, Facts DEF DataT
<1>c. \A x : Toward(desktop, x, restoreWrites(desktop, original), user)
  <2>1. RestorableAt(desktop, user) /\ \A k \in Keys(desktop) : user[k] # "unparsable"
    BY ZenonT(60), <1>0, Facts DEF Undisturbed, Restorable, RestorableAt
  <2> QED BY ZenonT(60), <1>b, <2>1, RestoreToward
<1>d. main # "off" => taken \in Config(desktop)
  <2>1. main # "off" => Address[proc] \in Values(desktop)
    BY ZenonT(60), ValuesHave DEF ControlOK
  <2> QED BY ZenonT(60), <1>b, <2>1, TakenType
<1>e. \A t \in Config(desktop) : work = <<>> /\ Toward(desktop, settings, work, t) => settings = t
  BY ZenonT(60), <1>b, TowardDone
<1>1. CASE Launch
  BY ZenonT(60), <1>a, <1>1 DEF Launch, JournalOK, OriginalNeverLost, Signalled, Shutting
<1>2. CASE Crash
  BY ZenonT(60), <1>a, <1>2 DEF Crash, self, flags, JournalOK, OriginalNeverLost, Signalled, Shutting
<1>3. CASE Quit
  BY ZenonT(60), <1>a, <1>3 DEF Quit, MainTo, self, flags, JournalOK, OriginalNeverLost, Signalled, Shutting
<1>4. CASE Signal
  BY ZenonT(60), <1>a, <1>4 DEF Signal, self, flags, JournalOK, OriginalNeverLost, Signalled, Shutting
<1>5. CASE Start
  <2>0. /\ ~started /\ ~closed /\ main = "prompt" /\ ~hasJournal /\ "restoring" # sig
        /\ UNCHANGED <<settings, journal, proc, headless, sig, before, started, hasJournal>>
    BY ZenonT(60), <1>5 DEF Start, recoverJournal, MainTo, self, flags, ControlOK
  <2>1. CASE journal = NoJournal
    <3>1. main' = "connecting"
      BY ZenonT(60), <1>5, <2>1 DEF Start, recoverJournal, MainTo
    <3> QED BY ZenonT(60), <1>a, <2>0, <2>1, <3>1 DEF JournalOK, OriginalNeverLost, Signalled, Shutting
  <2>2. CASE journal # NoJournal
    <3>1. "headless recovery" \notin mishaps'
      BY ZenonT(60), <1>a
    <3>2. main' = "recovering" /\ ~headless /\ journal # empty /\ work' = restoreWrites(desktop, journal)
      BY ZenonT(60), <1>5, <2>2, <3>1 DEF Start, recoverJournal, MainTo, Restore, Happens
    <3>3. journal = original
      BY ZenonT(60), <2>2, <3>2 DEF JournalOK
    <3>4. Toward(desktop, settings, work', user)
      BY ZenonT(60), <1>c, <3>2, <3>3
    <3> QED BY ZenonT(60), <1>a, <2>0, <3>2, <3>3, <3>4 DEF JournalOK, OriginalNeverLost, Signalled, Shutting
  <2> QED BY ZenonT(60), <2>1, <2>2
<1>6. CASE Runs /\ WriteDone
  <2>0. /\ work # <<>> /\ work' = Tail(work) /\ ~(Unwritable(Head(work)) /\ Head(work).fatal)
        /\ ~Unwritable(Head(work)) => settings' = [settings EXCEPT ![Head(work).key] = Head(work).value]
        /\ UNCHANGED <<journal, proc, headless, main, sig, before, started, hasJournal>>
    BY ZenonT(60), <1>6 DEF WriteDone, self, flags
  <2>1. ASSUME NEW t, Toward(desktop, settings, work, t) PROVE Toward(desktop, settings', work', t)
    <3>1. settings \in Config(desktop) /\ work \in Seq(Write(desktop))
      BY ZenonT(60), <1>0 DEF DataT
    <3>2. work # <<>> /\ ~(Unwritable(Head(work)) /\ Head(work).fatal)
      BY ZenonT(60), <2>0
    <3>3. /\ ~Unwritable(Head(work))
          /\ Toward(desktop, [settings EXCEPT ![Head(work).key] = Head(work).value], Tail(work), t)
      BY ZenonT(60), <2>1, <3>1, <3>2, TowardStep
    <3> QED BY ZenonT(60), <2>0, <3>3
  <2>2. main \in {"recovering", "applying"} \/ "restoring" \in {main, sig}
    BY ZenonT(60), <1>0, <1>6, <2>0 DEF WorkT, Runs
  <2>3. CASE main = "recovering"
    BY ZenonT(60), <1>a, <2>0, <2>1, <2>3 DEF ControlOK, JournalOK, OriginalNeverLost, Signalled, Shutting
  <2>4. CASE main = "applying"
    <3>1. ~headless
      BY ZenonT(60), <2>0, <2>4 DEF JournalOK
    <3> QED BY ZenonT(60), <1>a, <2>0, <2>1, <2>4, <3>1 DEF ControlOK, JournalOK, OriginalNeverLost, Signalled, Shutting
  <2>5. CASE "restoring" \in {main, sig}
    BY ZenonT(60), <1>a, <2>0, <2>1, <2>5 DEF ControlOK, JournalOK, OriginalNeverLost, Signalled, Shutting
  <2> QED BY ZenonT(60), <2>2, <2>3, <2>4, <2>5
<1>7. CASE WriteIgnored
  BY ZenonT(60), <1>a, <1>7 DEF WriteIgnored, Happens
<1>8. CASE RecoverFails
  BY ZenonT(60), <1>a, <1>8 DEF RecoverFails, MainTo, self, flags, ControlOK, JournalOK, OriginalNeverLost, Signalled, Shutting
<1>9. CASE Recovered
  <2>1. settings = user
    BY ZenonT(60), <1>b, <1>e, <1>9 DEF Recovered, MainTo, JournalOK
  <2> QED BY ZenonT(60), <1>a, <1>9, <2>1 DEF Recovered, MainTo, self, flags, ControlOK, JournalOK, OriginalNeverLost, Signalled, Shutting
<1>10. CASE Connected \/ ConnectFails
  <2>1. main = "connecting" /\ settings = user /\ journal = NoJournal /\ ~started /\ ~hasJournal
    BY ZenonT(60), <1>b, <1>10 DEF Connected, ConnectFails, MainTo, ControlOK, JournalOK, OriginalNeverLost, Signalled, Shutting
  <2>2. /\ main' \in {"listening", "prompt"} /\ "restoring" # sig
        /\ UNCHANGED <<settings, journal, proc, headless, sig, before, hasJournal, work>>
    BY ZenonT(60), <1>10, <2>1 DEF Connected, ConnectFails, MainTo, self, ControlOK
  <2> QED BY ZenonT(60), <1>a, <2>1, <2>2 DEF JournalOK, OriginalNeverLost, Signalled, Shutting
<1>11. CASE TakeSnapshot \/ SnapshotFails
  <2>1. main = "listening" /\ settings = user /\ journal = NoJournal /\ started /\ ~hasJournal
    BY ZenonT(60), <1>11 DEF TakeSnapshot, SnapshotFails, MainTo, ControlOK, JournalOK, OriginalNeverLost, Signalled, Shutting
  <2>2. /\ main' = "prompt" \/ (main' = "journaling" /\ before' = IF headless THEN empty ELSE original)
        /\ "restoring" # sig
        /\ UNCHANGED <<settings, journal, proc, headless, sig, started, hasJournal, work>>
    BY ZenonT(60), <1>b, <1>11, <2>1 DEF TakeSnapshot, SnapshotFails, MainTo, self, flags, ControlOK
  <2> QED BY ZenonT(60), <1>a, <2>1, <2>2 DEF JournalOK, OriginalNeverLost, Signalled, Shutting
<1>12. CASE WriteJournal
  <2>1. /\ main = "journaling" /\ main' = "applying" /\ journal' = before
        /\ work' = IF headless THEN <<>> ELSE applyWrites(desktop, Address[proc])
        /\ UNCHANGED <<settings, proc, headless, sig, before, started, hasJournal>>
    BY ZenonT(60), <1>12 DEF WriteJournal, saveJournal, MainTo, self, flags
  <2>2. settings = user /\ ~hasJournal /\ "restoring" # sig /\ before = IF headless THEN empty ELSE original
    BY ZenonT(60), <2>1 DEF ControlOK, JournalOK, OriginalNeverLost, Signalled, Shutting
  <2>3. Toward(desktop, user, applyWrites(desktop, Address[proc]), taken)
    BY ZenonT(60), <1>b, ApplyToward
  <2>4. CASE headless
    BY ZenonT(60), <1>a, <2>1, <2>2, <2>4 DEF JournalOK, OriginalNeverLost, Signalled, Shutting
  <2>5. CASE ~headless
    BY ZenonT(60), <1>a, <2>1, <2>2, <2>3, <2>5 DEF JournalOK, OriginalNeverLost, Signalled, Shutting
  <2> QED BY ZenonT(60), <2>4, <2>5
<1>13. CASE Applied
  <2>1. /\ main = "applying" /\ main' = "prompt" /\ hasJournal' = TRUE /\ ~headless
        /\ work = <<>> /\ ~hasJournal
        /\ UNCHANGED <<settings, journal, proc, headless, sig, before, started, work>>
    BY ZenonT(60), <1>13 DEF Applied, MainTo, self, ControlOK, Shutting
  <2>2. settings = taken /\ before = original /\ journal = original /\ "restoring" # sig
    BY ZenonT(60), <1>d, <1>e, <2>1 DEF JournalOK, ControlOK
  <2> QED BY ZenonT(60), <1>a, <2>1, <2>2 DEF JournalOK, OriginalNeverLost, Signalled, Shutting
<1>14. CASE ApplyFails
  <2>1. "apply failed" \notin mishaps'
    BY ZenonT(60), <1>a
  <2>2. /\ main = "applying" /\ main' = "prompt" /\ headless /\ ~hasJournal /\ journal' = NoJournal
        /\ UNCHANGED <<settings, proc, headless, sig, before, started, hasJournal>>
    BY ZenonT(60), <1>14, <2>1 DEF ApplyFails, MainTo, Happens, self, flags, ControlOK, Shutting
  <2>3. settings = user /\ "restoring" # sig
    BY ZenonT(60), <2>2 DEF JournalOK, ControlOK
  <2> QED BY ZenonT(60), <1>a, <2>2, <2>3 DEF JournalOK, OriginalNeverLost, Signalled, Shutting
<1>15. CASE Closed
  <2>1. /\ UNCHANGED <<settings, journal, proc, headless, before, started, hasJournal, work>>
        /\ \/ main = "shutdown" /\ main' \in {"exited", "draining"} /\ sig' = sig
           \/ sig = "shutdown" /\ sig' \in {"done", "draining"} /\ main' = main
    BY ZenonT(60), <1>15 DEF Closed, ThreadTo, MainTo, self
  <2> QED BY ZenonT(60), <1>a, <2>1 DEF JournalOK, OriginalNeverLost, Signalled, Shutting
<1>16. CASE CheckProxy
  <2>1. /\ hasJournal /\ work' = restoreWrites(desktop, before) /\ ~headless
        /\ UNCHANGED <<settings, journal, proc, headless, before, started, hasJournal>>
        /\ \/ main = "draining" /\ main' = "restoring" /\ sig' = sig
           \/ sig = "draining" /\ sig' = "restoring" /\ main' = main
    BY ZenonT(60), <1>16 DEF CheckProxy, restoring, Restore, ThreadTo, MainTo, self, flags, ControlOK
  <2>2. before = original /\ journal = original
    BY ZenonT(60), <2>1 DEF JournalOK
  <2>3. Toward(desktop, settings, work', user)
    BY ZenonT(60), <1>c, <2>1, <2>2
  <2> QED BY ZenonT(60), <1>a, <2>1, <2>2, <2>3 DEF ControlOK, JournalOK, OriginalNeverLost, Signalled, Shutting
<1>17. CASE SkipRestore
  <2>1. /\ UNCHANGED <<settings, journal, proc, headless, before, started, hasJournal, work>>
        /\ \/ main = "draining" /\ main' = "exited" /\ sig' = sig
           \/ sig = "draining" /\ sig' = "done" /\ main' = main
    BY ZenonT(60), <1>17 DEF SkipRestore, ThreadTo, MainTo, self, flags
  <2> QED BY ZenonT(60), <1>a, <2>1 DEF JournalOK, OriginalNeverLost, Signalled, Shutting
<1>18. CASE RestoreFails
  <2>1. /\ UNCHANGED <<settings, journal, proc, headless, before, started, hasJournal>>
        /\ \/ main = "restoring" /\ main' = "exited" /\ sig' = sig
           \/ sig = "restoring" /\ sig' = "done" /\ main' = main
    BY ZenonT(60), <1>18 DEF RestoreFails, ThreadTo, MainTo, self, flags
  <2> QED BY ZenonT(60), <1>a, <2>1 DEF ControlOK, JournalOK, OriginalNeverLost, Signalled, Shutting
<1>19. CASE Restored
  <2>1. /\ work = <<>> /\ journal' = NoJournal /\ hasJournal' = FALSE
        /\ UNCHANGED <<settings, proc, headless, before, started>>
        /\ \/ main = "restoring" /\ main' = "exited" /\ sig' = sig
           \/ sig = "restoring" /\ sig' = "done" /\ main' = main
    BY ZenonT(60), <1>19 DEF Restored, restoreDone, resetFlag, ThreadTo, MainTo, self
  <2>2. settings = user
    BY ZenonT(60), <1>b, <1>e, <2>1 DEF JournalOK
  <2> QED BY ZenonT(60), <1>a, <2>1, <2>2 DEF ControlOK, JournalOK, OriginalNeverLost, Signalled, Shutting
<1>20. CASE UNCHANGED vars
  BY ZenonT(60), <1>a, <1>20 DEF vars, self, flags, JournalOK, OriginalNeverLost, Signalled, Shutting
<1> QED
  BY ZenonT(60), <1>a, <1>1, <1>2, <1>3, <1>4, <1>5, <1>6, <1>7, <1>8, <1>9, <1>10, <1>11, <1>12, <1>13, <1>14, <1>15,
     <1>16, <1>17, <1>18, <1>19, <1>20 DEF Next, Step

-----------------------------------------------------------------------------
(* A graceful exit                                                         *)

LEMMA GracefulStep ==
  ASSUME TypeOK, ControlOK, Undisturbed => JournalOK, GracefulExitRestores, [Next]_vars
  PROVE  GracefulExitRestores'
<1> SUFFICES ASSUME main' = "exited", started', ~Signalled', changes' = 0, mishaps' = {}, Restorable', Recognised'
             PROVE  settings' = user'
  BY ZenonT(60) DEF GracefulExitRestores
<1>0. DataT /\ CountT /\ PlaceT /\ WorkT
  BY Parts
<1>1. Undisturbed'
  BY ZenonT(60) DEF Undisturbed
<1>2. Undisturbed /\ ~UserChange /\ UNCHANGED <<desktop, user>>
  BY ZenonT(60), <1>0, <1>1, StillUndisturbed
<1>3. JournalOK /\ JournalOK'
  BY ZenonT(60), <1>1, <1>2, JournalStep
<1>4. Recognised /\ mishaps = {}
  <2>1. mishaps \subseteq mishaps'
    BY ZenonT(60), <1>0, CountStep
  <2>2. mishaps = {}
    BY <2>1
  <2>3. Recognised
    BY ZenonT(60), <1>2 DEF Recognised
  <2> QED BY ZenonT(60), <2>2, <2>3
<1>5. CASE main = "exited" /\ ~Launch
  <2>1. UNCHANGED <<settings, started, sig>>
    BY ZenonT(60), <1>2, <1>5 DEF Next, Step, Runs, Crash, Start, recoverJournal, Quit, MainTo, Signal, vars, flags
  <2>2. GracefulExitRestores => settings = user
    BY ZenonT(60), <1>2, <1>4, <1>5, <2>1 DEF GracefulExitRestores, Signalled, Undisturbed
  <2> QED BY ZenonT(60), <1>2, <2>1, <2>2
<1>6. CASE main # "exited"
  <2>1. Closed \/ SkipRestore \/ RestoreFails \/ Restored
    BY ZenonT(60), <1>2, <1>6 DEF Next, Step, Launch, Crash, Start, recoverJournal, Quit, Signal, WriteDone, WriteIgnored,
           RecoverFails, Recovered, Connected, ConnectFails, TakeSnapshot, SnapshotFails, WriteJournal, Applied,
           ApplyFails, CheckProxy, ThreadTo, MainTo, vars
  <2>2. sig = "waiting" /\ sig' = "waiting"
    BY ZenonT(60), <1>6, <2>1 DEF Closed, SkipRestore, RestoreFails, Restored, ThreadTo, Signalled
  <2>3. CASE Closed
    BY ZenonT(60), <1>6, <2>2, <2>3 DEF Closed, ThreadTo, MainTo, ControlOK, Signalled
  <2>4. CASE SkipRestore
    <3>1. main = "draining" /\ started /\ ~restoring /\ UNCHANGED settings
      BY ZenonT(60), <1>6, <2>4 DEF SkipRestore, ThreadTo, MainTo, Happens, flags
    <3>2. ~hasJournal
      <4>1. hasJournal => settings = Taken(desktop, Address[proc], user)
        BY ZenonT(60), <1>3, <2>2, <3>1 DEF JournalOK, Signalled
      <4>2. matches(desktop, Taken(desktop, Address[proc], user), Address[proc])
        <5>1. desktop \in Known
          BY ZenonT(60), <1>0, Facts
        <5>2. desktop = "gnome" => user["autoconf"] = ""
          BY ZenonT(60), <1>4 DEF Recognised
        <5> QED BY ZenonT(60), <5>1, <5>2, TakenMatches
      <4> QED BY ZenonT(60), <3>1, <4>1, <4>2 DEF restoring
    <3> QED BY ZenonT(60), <1>2, <1>3, <3>1, <3>2 DEF JournalOK
  <2>5. CASE RestoreFails
    BY ZenonT(60), <2>5 DEF RestoreFails, Happens
  <2>6. CASE Restored
    BY ZenonT(60), <1>3, <2>6 DEF Restored, resetFlag, JournalOK
  <2> QED BY ZenonT(60), <2>1, <2>3, <2>4, <2>5, <2>6
<1>7. ~Launch
  BY ZenonT(60) DEF Launch
<1> QED BY ZenonT(60), <1>5, <1>6, <1>7

LEMMA InvStarts == Init => JInv
<1> SUFFICES ASSUME Init PROVE JInv
  OBVIOUS
<1>1. TypeOK /\ ControlOK
  BY ZenonT(60), Start0
<1>2. JournalOK /\ GracefulExitRestores
  BY ZenonT(60) DEF Init, JournalOK, OriginalNeverLost, GracefulExitRestores
<1> QED BY ZenonT(60), <1>1, <1>2 DEF JInv

LEMMA InvHolds == Spec => []JInv
<1>1. JInv /\ [Next]_vars => JInv'
  <2> SUFFICES ASSUME JInv, [Next]_vars PROVE JInv'
    OBVIOUS
  <2>1. TypeOK' /\ ControlOK'
    BY ZenonT(60), Typed DEF JInv
  <2>2. ASSUME Undisturbed' PROVE JournalOK'
    <3>1. CountT
      BY ZenonT(60), Parts DEF JInv
    <3>2. Undisturbed
      BY ZenonT(60), <2>2, <3>1, StillUndisturbed
    <3> QED BY ZenonT(60), <2>2, <3>2, JournalStep DEF JInv
  <2>3. GracefulExitRestores'
    BY ZenonT(60), GracefulStep DEF JInv
  <2> QED BY ZenonT(60), <2>1, <2>2, <2>3 DEF JInv
<1> QED BY InvStarts, <1>1, PTL DEF Spec

\* However clients are killed at any step, are signalled, return an error from
\* Restore and are started again, for any number of them: while the user leaves
\* the settings alone they are in force or the journal file has them.
THEOREM JournalKeepsOriginal == Spec => []JournalHasOriginal
<1>1. JInv => JournalHasOriginal
  BY ZenonT(60) DEF JInv, Undisturbed, JournalOK, JournalHasOriginal
<1> QED BY InvHolds, <1>1, PTL

\* A client that connected and ends on "quit" or the end of its input, with no
\* signal, leaves the user's settings behind.
THEOREM GracefulExit == Spec => []GracefulExitRestores
<1>1. JInv => GracefulExitRestores
  BY ZenonT(60) DEF JInv
<1> QED BY InvHolds, <1>1, PTL

\* Where no settings that a user may choose are those of a client, Shutdown never
\* starts to restore while the settings are the user's own.
THEOREM ChangeKept ==
  ASSUME \A d \in Desktops : \A c \in Configs[d] : \A i \in 1..Len(Address) : ~matches(d, c, Address[i])
  PROVE  Spec => UserChangeKept
<1>1. JInv /\ [Next]_vars => [RestoreStarts => settings # user]_vars
  <2> SUFFICES ASSUME JInv, Next, RestoreStarts, settings = user PROVE FALSE
    BY ZenonT(60)
  <2>1. CheckProxy
    BY ZenonT(60) DEF RestoreStarts, Next, Step, Launch, Crash, UserChange, Start, recoverJournal, Quit, Signal, WriteDone,
           WriteIgnored, RecoverFails, Recovered, Connected, ConnectFails, TakeSnapshot, SnapshotFails, WriteJournal,
           Applied, ApplyFails, Closed, SkipRestore, RestoreFails, Restored, ThreadTo, MainTo
  <2>2. hasJournal /\ matches(desktop, user, Address[proc])
    BY ZenonT(60), <2>1 DEF CheckProxy, restoring
  <2>3. proc \in 1..Len(Address)
    BY ZenonT(60), <2>2 DEF JInv, ControlOK, Shutting
  <2>4. desktop \in Desktops /\ user \in Configs[desktop]
    BY ZenonT(60) DEF JInv, TypeOK
  <2> QED BY ZenonT(60), <2>2, <2>3, <2>4
<1> QED BY InvHolds, <1>1, PTL DEF Spec, UserChangeKept
=============================================================================
