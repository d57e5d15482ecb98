--------------------------- MODULE ResolvConfProofs ---------------------------
(***************************************************************************)
(* Proofs about the resolver configuration: for any number of changes to   *)
(* the file and any goroutines in GetResolverAddress, a watcher that has   *)
(* caught up with the events has the text of the file in use.              *)
(*                                                                         *)
(* The inductive invariant follows the news of the last change: it is in   *)
(* the queue as an event the watcher will read the file for, or a watch is *)
(* about to be added and the file read after it, or a goroutine is reading *)
(* the file, or the text is in use.  That the events of the file are the   *)
(* ones the watcher goes by needs the kernel's watches next to fileWD, and *)
(* that a file elsewhere is watched in time needs what is still to come    *)
(* while it is not.                                                        *)
(***************************************************************************)
EXTENDS ResolvConf, TLAPS

Elements(s) == {s[i] : i \in DOMAIN s}

Masks == {"CREATE", "CLOSE_WRITE", "MOVED_TO"} \cup Lost
Events == [wd : Nat \ {0}, mask : Masks]
Places == {"off", "idle", "read", "store", "watch dir", "watch file", "done", "wait", "add"}
Goroutines == [pc : Places, got : Versions \cup {Nil}, reload : BOOLEAN]

(* The watcher has been started.                                           *)
On == ~At("watcher", "off")

(* Types, and which places belong to whom.                                 *)
Shape ==
  /\ TypeOK
  /\ lastWD \in Nat
  /\ queue \in Seq(Events)
  /\ loader \in [Loaders -> Goroutines]
  /\ loader["watcher"].pc \in {"off", "wait", "add", "read", "store"}
  /\ loader["start"].pc \in {"read", "store", "watch dir", "watch file", "done"}

(* The kernel's watches: none before the directory is watched, none of a   *)
(* file before the watcher runs, none of a file yet to come.  That of the  *)
(* file the path leads to is the one the watcher goes by, and nothing in   *)
(* the queue takes it away.                                                *)
WatchInv ==
  /\ IF dir THEN lastWD >= DirWD /\ loader["start"].pc \in {"watch file", "done"}
            ELSE lastWD = NoWD
  /\ At("start", "watch file") => dir /\ ~On
  /\ IF On THEN dir /\ At("start", "done") ELSE fileWD = NoWD
  /\ \A n \in Nodes : watch[n] # DirWD /\ (~On \/ n = 0 \/ n > changes + 1 => watch[n] = NoWD)
  /\ node <= changes + 1
  /\ watch[node] # NoWD => fileWD = watch[node]
  /\ \A e \in Elements(queue) : e.mask \in Lost => e.wd # watch[node]

(* An event that makes the watcher read the file, as long as fileWD stays. *)
Told(e) == e.wd \in {DirWD, fileWD} /\ Reloads(e.mask)

(* A file elsewhere that nobody watches, and that came up with notice.     *)
Unwatched == link /\ node # 0 /\ node \notin blind /\ watch[node] = NoWD

(* A watch will be added, and then the file be read.                       *)
WillWatch ==
  \/ At("watcher", "add") /\ loader["watcher"].reload
  \/ \E e \in Elements(queue) : Told(e) /\ AddsWatch(e.mask)

NoticeInv ==
  /\ unheard \/ \A e \in Elements(queue) : e.mask # "CREATE"
  /\ At("watcher", "add") => loader["watcher"].reload \/ unheard
  /\ On /\ Unwatched => WillWatch

Reading(x) == At(x, "read") \/ (At(x, "store") /\ loader[x].got = text[node])

(* The text of the file is in use, or on the way.                          *)
CurrentInv ==
  node # 0 /\ ~writing /\ ~unheard =>
    \/ Reading("start") \/ Reading("watcher") \/ At("watcher", "add")
    \/ \E e \in Elements(queue) : Told(e)
    \/ config = text[node] /\ ~At("start", "store") /\ ~At("watcher", "store")
    \/ At("start", "done") /\ ~On

IInv == Shape /\ WatchInv /\ NoticeInv /\ CurrentInv

---------------------------------------------------------------------------
(* What is in a sequence: nothing in the empty one, what is in either part *)
(* of a longer one, and its head besides what is in its tail.              *)
LEMMA ElementsOf ==
  ASSUME NEW S
  PROVE  /\ Elements(<<>>) = {}
         /\ \A e : Elements(<<e>>) = {e}
         /\ \A s \in Seq(S) : Elements(s) \subseteq S
         /\ \A s, t \in Seq(S) :
              s \o t \in Seq(S) /\ Elements(s \o t) = Elements(s) \cup Elements(t)
         /\ \A s \in Seq(S) : s # <<>> =>
              /\ Head(s) \in S /\ Tail(s) \in Seq(S)
              /\ Elements(s) = {Head(s)} \cup Elements(Tail(s))
<1>1. Elements(<<>>) = {} /\ \A e : Elements(<<e>>) = {e}
  BY DEF Elements
<1>2. \A s \in Seq(S) : Elements(s) \subseteq S
  BY DEF Elements
<1>3. ASSUME NEW s \in Seq(S), NEW t \in Seq(S)
      PROVE  s \o t \in Seq(S) /\ Elements(s \o t) = Elements(s) \cup Elements(t)
  <2>1. s \o t \in Seq(S) /\ Len(s \o t) = Len(s) + Len(t)
    OBVIOUS
  <2>2. \A i \in 1 .. Len(s) : i \in 1 .. Len(s \o t) /\ (s \o t)[i] = s[i]
    OBVIOUS
  <2>3. \A i \in 1 .. Len(t) : Len(s) + i \in 1 .. Len(s \o t) /\ (s \o t)[Len(s) + i] = t[i]
    OBVIOUS
  <2>4. \A i \in 1 .. Len(s \o t) :
          i \in 1 .. Len(s) \/ (i - Len(s) \in 1 .. Len(t) /\ (s \o t)[i] = t[i - Len(s)])
    BY <2>1
  <2>5. DOMAIN s = 1 .. Len(s) /\ DOMAIN t = 1 .. Len(t) /\ DOMAIN (s \o t) = 1 .. Len(s \o t)
    BY <2>1
  <2>6. ASSUME NEW e \in Elements(s \o t) PROVE e \in Elements(s) \cup Elements(t)
    <3>1. PICK i \in 1 .. Len(s \o t) : e = (s \o t)[i]
      BY <2>5, Zenon DEF Elements
    <3>2. CASE i \in 1 .. Len(s)
      BY <2>2, <2>5, <3>1, <3>2, Zenon DEF Elements
    <3>3. CASE i - Len(s) \in 1 .. Len(t) /\ (s \o t)[i] = t[i - Len(s)]
      BY <2>5, <3>1, <3>3, Zenon DEF Elements
    <3>. QED  BY <2>4, <3>2, <3>3, Zenon
  <2>7. ASSUME NEW e \in Elements(s) PROVE e \in Elements(s \o t)
    <3>1. PICK i \in 1 .. Len(s) : e = s[i]
      BY <2>5, Zenon DEF Elements
    <3>. QED  BY <2>2, <2>5, <3>1, Zenon DEF Elements
  <2>8. ASSUME NEW e \in Elements(t) PROVE e \in Elements(s \o t)
    <3>1. PICK i \in 1 .. Len(t) : e = t[i]
      BY <2>5, Zenon DEF Elements
    <3>. QED  BY <2>3, <2>5, <3>1, Zenon DEF Elements
  <2>. QED  BY <2>1, <2>6, <2>7, <2>8, Zenon
<1>4. ASSUME NEW s \in Seq(S), s # <<>>
      PROVE  /\ Head(s) \in S /\ Tail(s) \in Seq(S)
             /\ Elements(s) = {Head(s)} \cup Elements(Tail(s))
  <2>1. Head(s) \in S /\ Tail(s) \in Seq(S) /\ Len(Tail(s)) = Len(s) - 1 /\ Head(s) = s[1]
    BY <1>4
  <2>2. \A i \in 1 .. Len(Tail(s)) : i + 1 \in 1 .. Len(s) /\ Tail(s)[i] = s[i + 1]
    BY <1>4, <2>1
  <2>3. \A i \in 1 .. Len(s) : i = 1 \/ (i - 1 \in 1 .. Len(Tail(s)) /\ Tail(s)[i - 1] = s[i])
    BY <1>4, <2>1
  <2>4. DOMAIN s = 1 .. Len(s) /\ DOMAIN Tail(s) = 1 .. Len(Tail(s)) /\ 1 \in 1 .. Len(s)
    BY <1>4, <2>1
  <2>5. ASSUME NEW e \in Elements(s) PROVE e \in {Head(s)} \cup Elements(Tail(s))
    <3>1. PICK i \in 1 .. Len(s) : e = s[i]
      BY <2>4, Zenon DEF Elements
    <3>2. CASE i = 1
      BY <2>1, <3>1, <3>2, Zenon
    <3>3. CASE i - 1 \in 1 .. Len(Tail(s)) /\ Tail(s)[i - 1] = s[i]
      BY <2>4, <3>1, <3>3, Zenon DEF Elements
    <3>. QED  BY <2>3, <3>2, <3>3, Zenon
  <2>6. Head(s) \in Elements(s)
    BY <2>1, <2>4, Zenon DEF Elements
  <2>7. ASSUME NEW e \in Elements(Tail(s)) PROVE e \in Elements(s)
    <3>1. PICK i \in 1 .. Len(Tail(s)) : e = Tail(s)[i]
      BY <2>4, Zenon DEF Elements
    <3>. QED  BY <2>2, <2>4, <3>1, Zenon DEF Elements
  <2>. QED  BY <2>1, <2>5, <2>6, <2>7, Zenon
<1>. QED  BY <1>1, <1>2, <1>3, <1>4

(* An event in the queue is one of a watch the kernel gave out.            *)
LEMMA EventType ==
  ASSUME Shape
  PROVE  \A e \in Elements(queue) : e \in Events /\ e.wd \in 1 .. lastWD /\ e.wd # NoWD
<1>1. Elements(queue) \subseteq Events
  BY ElementsOf DEF Shape
<1>. QED  BY <1>1 DEF Shape, TypeOK, Elements, Events, NoWD

(* The events of a change, as sets: those of the directory ...             *)
LEMMA DirEventElements ==
  ASSUME Shape, NEW mask \in Masks
  PROVE  /\ DirEvent(mask) \in Seq(Events)
         /\ Elements(DirEvent(mask)) = IF dir THEN {Event(DirWD, mask)} ELSE {}
<1>1. Event(DirWD, mask) \in Events
  BY DEF Event, Events, DirWD
<1>2. <<>> \in Seq(Events) /\ <<Event(DirWD, mask)>> \in Seq(Events)
  BY <1>1
<1>. QED  BY <1>2, ElementsOf, Zenon DEF DirEvent

(* ... those of the file ...                                               *)
LEMMA FileEventElements ==
  ASSUME Shape, NEW mask \in Masks
  PROVE  /\ FileEvent(mask) \in Seq(Events)
         /\ Elements(FileEvent(mask)) =
              IF watch[node] = NoWD THEN {} ELSE {Event(watch[node], mask)}
<1>0. watch[node] \in 0 .. lastWD /\ lastWD \in Nat
  BY Zenon DEF Shape, TypeOK
<1>1. watch[node] \in Nat
  BY <1>0
<1>2. watch[node] # NoWD => Event(watch[node], mask) \in Events
  BY <1>1 DEF Event, Events, NoWD
<1>3. <<>> \in Seq(Events) /\ (watch[node] # NoWD => <<Event(watch[node], mask)>> \in Seq(Events))
  BY <1>2
<1>. QED  BY <1>3, ElementsOf, Zenon DEF FileEvent

(* ... and the two of a file that is gone.                                 *)
LEMMA DeletedElements ==
  ASSUME Shape
  PROVE  /\ Deleted \in Seq(Events)
         /\ Elements(Deleted) =
              IF watch[node] = NoWD THEN {}
              ELSE {Event(watch[node], "DELETE_SELF"), Event(watch[node], "IGNORED")}
<1>1. "DELETE_SELF" \in Masks /\ "IGNORED" \in Masks
  BY DEF Masks, Lost
<1>2. /\ FileEvent("DELETE_SELF") \in Seq(Events) /\ FileEvent("IGNORED") \in Seq(Events)
      /\ Elements(FileEvent("DELETE_SELF")) =
           IF watch[node] = NoWD THEN {} ELSE {Event(watch[node], "DELETE_SELF")}
      /\ Elements(FileEvent("IGNORED")) =
           IF watch[node] = NoWD THEN {} ELSE {Event(watch[node], "IGNORED")}
  BY <1>1, FileEventElements
<1>3. /\ Deleted \in Seq(Events)
      /\ Elements(Deleted) = Elements(FileEvent("DELETE_SELF")) \cup Elements(FileEvent("IGNORED"))
  BY <1>2, ElementsOf DEF Deleted
<1>. QED  BY <1>2, <1>3, Zenon

---------------------------------------------------------------------------
(* What every change to the file keeps to.  Its text is told of by one of  *)
(* its events, or the file has been unwatched for a time and will be       *)
(* watched and read, or unheard is set.                                    *)
ChangeRule(E, gone) ==
  /\ link' \in BOOLEAN /\ writing' \in BOOLEAN /\ text' \in [Nodes -> Versions]
  /\ node' \in {node, 0, Fresh}
  /\ gone /\ node # 0 => node' # node
  /\ node' = node => \A e \in E : e.mask \notin Lost
  /\ (\E e \in E : e.mask = "CREATE") => unheard'
  /\ On /\ link' /\ node' # 0 /\ node' \notin blind' =>
       \/ node' = node /\ link
       \/ \E e \in E : Told(e) /\ AddsWatch(e.mask)
       \/ Unwatched
  /\ node' # 0 /\ ~writing' /\ ~unheard' =>
       \/ \E e \in E : Told(e)
       \/ On /\ Unwatched

(* A change brings a file and a text that were not there before.           *)
LEMMA FreshType ==
  ASSUME Shape, changes < MaxChanges
  PROVE  /\ Fresh \in Nodes /\ Fresh \in Versions /\ Fresh # 0 /\ Fresh > changes + 1
         /\ changes \in Nat /\ changes + 1 \in 0 .. MaxChanges /\ 0 \in Nodes
<1>1. changes \in 0 .. MaxChanges
  BY Zenon DEF Shape, TypeOK
<1>2. MaxChanges \in Nat
  BY ResolvConfAssumption
<1>. QED  BY <1>1, <1>2 DEF Fresh, Nodes, Versions

(* Whatever keeps to the rule keeps the invariant.                         *)
LEMMA ChangeInv ==
  ASSUME IInv, NEW events \in Seq(Events), NEW gone,
         \A e \in Elements(events) : e.wd \in 1 .. lastWD,
         Change(events, gone), ChangeRule(Elements(events), gone)
  PROVE  IInv'
<1>. DEFINE E == Elements(events)
<1>0. Shape /\ WatchInv /\ NoticeInv
  BY Zenon DEF IInv
<1>1. /\ changes < MaxChanges /\ changes' = changes + 1
      /\ queue' = queue \o events
      /\ watch' = IF gone THEN [watch EXCEPT ![node] = NoWD] ELSE watch
      /\ unheard' = (unheard \/ NoNotice(events))
      /\ blind' = IF NoNotice(events) THEN blind \cup {Fresh} ELSE blind
      /\ dir' = dir /\ lastWD' = lastWD /\ config' = config /\ fileWD' = fileWD /\ loader' = loader
  BY Zenon DEF Change
<1>2. queue' \in Seq(Events) /\ Elements(queue') = Elements(queue) \cup E
  <2>1. queue \in Seq(Events)
    BY <1>0, Zenon DEF Shape
  <2>2. queue \o events \in Seq(Events) /\ Elements(queue \o events) = Elements(queue) \cup E
    BY <2>1, ElementsOf
  <2>. QED  BY <1>1, <2>2, Zenon
<1>3. /\ Fresh \in Nodes /\ Fresh > changes + 1 /\ changes \in Nat
      /\ changes + 1 \in 0 .. MaxChanges /\ 0 \in Nodes
  BY <1>0, <1>1, FreshType, Zenon
<1>4. /\ link' \in BOOLEAN /\ writing' \in BOOLEAN /\ text' \in [Nodes -> Versions]
      /\ node' \in {node, 0, Fresh} /\ (gone /\ node # 0 => node' # node)
  BY Zenon DEF ChangeRule
<1>5. /\ node \in Nodes /\ watch \in [Nodes -> 0 .. lastWD] /\ lastWD \in Nat
      /\ watch[node] \in 0 .. lastWD
  BY <1>0, Zenon DEF Shape, TypeOK
<1>6. /\ watch' \in [Nodes -> 0 .. lastWD]
      /\ \A n \in Nodes : watch'[n] = watch[n] \/ watch'[n] = NoWD
      /\ \A n \in Nodes : (~gone \/ n # node) => watch'[n] = watch[n]
  BY <1>1, <1>5 DEF NoWD
<1>7. \A e \in Elements(queue') : e \in Events /\ e.wd \in 1 .. lastWD /\ e.wd # NoWD
  <2>1. \A e \in E : e \in Events
    BY ElementsOf, Zenon
  <2>2. \A w \in 1 .. lastWD : w # NoWD
    BY <1>5 DEF NoWD
  <2>. QED  BY <1>0, <1>2, <2>1, <2>2, EventType, Zenon
<1>8. Shape'
  <2>1. \A i \in DOMAIN queue' : queue'[i].wd \in 1 .. lastWD
    BY <1>7, Zenon DEF Elements
  <2>2. node' \in Nodes /\ blind' \subseteq Nodes /\ unheard' \in BOOLEAN
    BY <1>0, <1>1, <1>3, <1>4, <1>5, Zenon DEF Shape, TypeOK, NoNotice
  <2>3. TypeOK'
    BY <1>0, <1>1, <1>3, <1>4, <1>6, <2>1, <2>2, Zenon DEF Shape, TypeOK
  <2>. QED  BY <1>0, <1>1, <1>2, <2>3, Zenon DEF Shape
<1>9. node' # node => watch'[node'] = NoWD
  BY <1>0, <1>3, <1>4, <1>6, Zenon DEF WatchInv
<1>10. node' = node /\ node # 0 => watch'[node'] = watch[node]
  BY <1>4, <1>5, <1>6, Zenon
<1>11. WatchInv'
  <2>1. \A n \in Nodes : watch'[n] # DirWD /\ (~On \/ n = 0 \/ n > changes' + 1 => watch'[n] = NoWD)
    <3>1. NoWD # DirWD
      BY DEF NoWD, DirWD
    <3>2. \A n \in Nodes : n > changes' + 1 => n > changes + 1
      BY <1>1, <1>3 DEF Nodes
    <3>. QED  BY <1>0, <1>6, <3>1, <3>2, Zenon DEF WatchInv
  <2>2. node' <= changes' + 1
    <3>1. node <= changes + 1
      BY <1>0, Zenon DEF WatchInv
    <3>2. node \in Nat /\ changes \in Nat
      BY <1>3, <1>5 DEF Nodes
    <3>. QED  BY <1>1, <1>4, <3>1, <3>2 DEF Fresh
  <2>3. node' = node => watch'[node'] = watch[node] \/ watch'[node'] = NoWD
    BY <1>5, <1>6, Zenon
  <2>4. watch'[node'] # NoWD => fileWD' = watch'[node']
    BY <1>0, <1>1, <1>9, <2>3, Zenon DEF WatchInv
  <2>5. \A e \in Elements(queue') : e.mask \in Lost => e.wd # watch'[node']
    BY <1>0, <1>2, <1>7, <1>9, <2>3, Zenon DEF WatchInv, ChangeRule
  <2>6. On' = On /\ \A p : At("start", p)' = At("start", p)
    BY <1>1, Zenon DEF On, At
  <2>. QED  BY <1>0, <1>1, <2>1, <2>2, <2>4, <2>5, <2>6, Zenon DEF WatchInv
<1>12. \A e : /\ Told(e)' <=> Told(e)
              /\ On' <=> On
              /\ \A x, p : At(x, p)' <=> At(x, p)
  BY <1>1, Zenon DEF Told, On, At, Reloads
<1>13. WillWatch => WillWatch'
  BY <1>1, <1>2, <1>12, Zenon DEF WillWatch
<1>14. NoticeInv'
  <2>1. unheard' \/ \A e \in Elements(queue') : e.mask # "CREATE"
    BY <1>0, <1>1, <1>2, Zenon DEF NoticeInv, ChangeRule
  <2>2. At("watcher", "add")' => loader'["watcher"].reload \/ unheard'
    BY <1>0, <1>1, <1>12, Zenon DEF NoticeInv
  <2>3. ASSUME On', Unwatched' PROVE WillWatch'
    <3>1. On /\ link' /\ node' # 0 /\ node' \notin blind' /\ watch'[node'] = NoWD
      BY <1>12, <2>3, Zenon DEF Unwatched
    <3>2. CASE node' = node /\ link
      <4>1. Unwatched
        BY <1>1, <1>10, <3>1, <3>2, Zenon DEF Unwatched
      <4>. QED  BY <1>0, <1>13, <3>1, <4>1, Zenon DEF NoticeInv
    <3>3. CASE \E e \in E : Told(e) /\ AddsWatch(e.mask)
      BY <1>2, <1>12, <3>3, Zenon DEF WillWatch
    <3>4. CASE Unwatched
      BY <1>0, <1>13, <3>1, <3>4, Zenon DEF NoticeInv
    <3>. QED  BY <3>1, <3>2, <3>3, <3>4, Zenon DEF ChangeRule
  <2>. QED  BY <2>1, <2>2, <2>3, Zenon DEF NoticeInv
<1>15. CurrentInv'
  <2>1. SUFFICES ASSUME node' # 0, ~writing', ~unheard'
                 PROVE  \/ At("watcher", "add")'
                        \/ \E e \in Elements(queue') : Told(e)'
                        \/ At("start", "done")' /\ ~On'
    BY Zenon DEF CurrentInv
  <2>2. CASE \E e \in E : Told(e)
    BY <1>2, <1>12, <2>2, Zenon
  <2>3. CASE On /\ Unwatched
    BY <1>0, <1>13, <2>3, Zenon DEF NoticeInv, WillWatch
  <2>. QED  BY <2>1, <2>2, <2>3, Zenon DEF ChangeRule
<1>. QED  BY <1>8, <1>11, <1>14, <1>15, Zenon DEF IInv

(* A change is told of by an event that is not a creation, or it happens to *)
(* a file that came up with notice while the watcher runs; unheard and     *)
(* blind record the others.                                                *)
LEMMA Noticed ==
  ASSUME NEW events, NEW gone, Change(events, gone)
  PROVE  /\ \/ \E e \in Elements(events) : e.mask # "CREATE"
            \/ node # 0 /\ node \notin blind /\ On
            \/ unheard' /\ Fresh \in blind'
         /\ (\A e \in Elements(events) : e.mask = "CREATE") /\ (node = 0 \/ ~On)
              => unheard' /\ Fresh \in blind'
<1>1. NoNotice(events) => unheard' /\ Fresh \in blind'
  BY Zenon DEF Change
<1>2. NoNotice(events) <=> /\ \A e \in Elements(events) : e.mask = "CREATE"
                           /\ node = 0 \/ node \in blind \/ ~On
  BY Zenon DEF NoNotice, Elements, On, At
<1>. QED  BY <1>1, <1>2, Zenon

(* The events of the two watches there are, and what the watcher makes of  *)
(* them.                                                                   *)
LEMMA EventFacts ==
  ASSUME IInv
  PROVE  /\ dir => DirWD \in 1 .. lastWD
         /\ watch[node] # NoWD => watch[node] \in 1 .. lastWD /\ node # 0 /\ On
         /\ On => dir
         /\ \A m : Event(DirWD, m).mask = m /\ Event(DirWD, m).wd = DirWD
         /\ \A m : Event(watch[node], m).mask = m /\ Event(watch[node], m).wd = watch[node]
         /\ \A m : Reloads(m) => Told(Event(DirWD, m))
         /\ \A m : Reloads(m) /\ watch[node] # NoWD => Told(Event(watch[node], m))
<1>1. Shape /\ WatchInv
  BY Zenon DEF IInv
<1>2. /\ dir => lastWD >= DirWD
      /\ \A n \in Nodes : ~On \/ n = 0 => watch[n] = NoWD
      /\ On => dir
      /\ watch[node] # NoWD => fileWD = watch[node]
  BY <1>1, Zenon DEF WatchInv
<1>3. lastWD \in Nat /\ watch[node] \in 0 .. lastWD /\ node \in Nodes
  BY <1>1, Zenon DEF Shape, TypeOK
<1>4. \A w, m : Event(w, m).mask = m /\ Event(w, m).wd = w
  BY DEF Event
<1>5. dir => DirWD \in 1 .. lastWD
  BY <1>2, <1>3 DEF DirWD
<1>6. watch[node] # NoWD => watch[node] \in 1 .. lastWD
  BY <1>3 DEF NoWD
<1>7. \A m : Reloads(m) => Told(Event(DirWD, m))
  BY <1>4, Zenon DEF Told
<1>8. \A m : Reloads(m) /\ watch[node] # NoWD => Told(Event(watch[node], m))
  <2>. SUFFICES ASSUME NEW m, Reloads(m), watch[node] # NoWD
                PROVE  Told(Event(watch[node], m))
    BY Zenon
  <2>1. Event(watch[node], m).wd = fileWD /\ Event(watch[node], m).mask = m
    BY <1>2, <1>4, Zenon
  <2>. QED  BY <2>1, Zenon DEF Told
<1>. QED  BY <1>2, <1>3, <1>4, <1>5, <1>6, <1>7, <1>8, Zenon

(* The events of two watches, one after the other.                         *)
LEMMA Concat ==
  ASSUME NEW s \in Seq(Events), NEW t \in Seq(Events)
  PROVE  s \o t \in Seq(Events) /\ Elements(s \o t) = Elements(s) \cup Elements(t)
BY ElementsOf

(* Which events make handleEvent add a watch, and which make it read.      *)
LEMMA MaskFacts ==
  /\ "CREATE" \in Masks /\ "CREATE" \notin Lost
  /\ "CLOSE_WRITE" \in Masks /\ "CLOSE_WRITE" \notin Lost /\ "CLOSE_WRITE" # "CREATE"
  /\ "MOVED_TO" \in Masks /\ "MOVED_TO" \notin Lost /\ "MOVED_TO" # "CREATE"
  /\ \A m \in Lost : m \in Masks /\ m # "CREATE" /\ Reloads(m) /\ AddsWatch(m)
  /\ Reloads("CLOSE_WRITE") /\ Reloads("MOVED_TO") /\ AddsWatch("MOVED_TO")
  /\ "DELETE_SELF" \in Lost /\ "IGNORED" \in Lost /\ "MOVE_SELF" \in Lost
BY DEF Masks, Lost, Reloads, AddsWatch

(* The events of a file that is gone or moved away are of the kind that    *)
(* ends a watch, and there are some if it was watched.                     *)
LEMMA LostElements ==
  ASSUME Shape
  PROVE  /\ \A e \in Elements(Deleted) :
              watch[node] # NoWD /\ \E m \in Lost : e = Event(watch[node], m)
         /\ \A e \in Elements(FileEvent("MOVE_SELF")) :
              watch[node] # NoWD /\ \E m \in Lost : e = Event(watch[node], m)
         /\ Elements(<<>>) = {}
         /\ watch[node] # NoWD => Event(watch[node], "IGNORED") \in Elements(Deleted)
<1>1. Elements(FileEvent("MOVE_SELF")) =
        IF watch[node] = NoWD THEN {} ELSE {Event(watch[node], "MOVE_SELF")}
  BY MaskFacts, FileEventElements, Zenon
<1>2. Elements(<<>>) = {}
  BY ElementsOf
<1>. QED  BY <1>1, <1>2, MaskFacts, DeletedElements, Zenon

(* handleEvent adds a watch and reads the file for each of them.           *)
LEMMA LostTold ==
  ASSUME IInv, NEW e, watch[node] # NoWD, \E m \in Lost : e = Event(watch[node], m)
  PROVE  e.mask # "CREATE" /\ e.wd \in 1 .. lastWD /\ Told(e) /\ AddsWatch(e.mask)
<1>1. PICK m \in Lost : e = Event(watch[node], m)
  OBVIOUS
<1>2. Reloads(m) /\ AddsWatch(m) /\ m # "CREATE"
  BY MaskFacts, Zenon
<1>3. e.mask = m /\ e.wd = watch[node] /\ watch[node] \in 1 .. lastWD
  BY <1>1, EventFacts, Zenon
<1>4. Told(e)
  BY <1>1, <1>2, EventFacts, Zenon
<1>. QED  BY <1>2, <1>3, <1>4, Zenon

(* The path leads to a file with a text, or nowhere.                       *)
LEMMA LeadsType ==
  ASSUME Shape, NEW n \in Nodes, NEW t \in Versions, Leads(n, t)
  PROVE  node' = n /\ text' \in [Nodes -> Versions]
<1>1. text \in [Nodes -> Versions]
  BY Zenon DEF Shape, TypeOK
<1>. QED  BY <1>1 DEF Leads

---------------------------------------------------------------------------
(* The actions, one by one.  A file written in place.                      *)
LEMMA CloseWriteInv ==
  ASSUME IInv, CloseWrite
  PROVE  IInv'
<1>. DEFINE first == IF link THEN <<>> ELSE DirEvent("CLOSE_WRITE")
            events == first \o FileEvent("CLOSE_WRITE")
            E == Elements(events)
<1>0. Shape
  BY Zenon DEF IInv
<1>1. Change(events, FALSE) /\ Leads(node, Fresh) /\ writing' = FALSE /\ link' = link
  BY Zenon DEF CloseWrite
<1>2. events \in Seq(Events) /\ E = Elements(first) \cup Elements(FileEvent("CLOSE_WRITE"))
  <2>1. DirEvent("CLOSE_WRITE") \in Seq(Events) /\ FileEvent("CLOSE_WRITE") \in Seq(Events)
    BY <1>0, MaskFacts, DirEventElements, FileEventElements, Zenon
  <2>2. first \in Seq(Events)
    BY <2>1
  <2>. HIDE DEF first
  <2>. QED  BY <2>1, <2>2, Concat, Zenon
<1>3. /\ E = (IF link \/ ~dir THEN {} ELSE {Event(DirWD, "CLOSE_WRITE")})
             \cup (IF watch[node] = NoWD THEN {} ELSE {Event(watch[node], "CLOSE_WRITE")})
  BY <1>0, <1>2, MaskFacts, DirEventElements, FileEventElements, ElementsOf, Zenon
<1>4. \A e \in E : e.mask = "CLOSE_WRITE" /\ e.wd \in 1 .. lastWD /\ Told(e)
  <2>. SUFFICES ASSUME NEW e \in E
                PROVE  e.mask = "CLOSE_WRITE" /\ e.wd \in 1 .. lastWD /\ Told(e)
    BY Zenon
  <2>1. CASE dir /\ e = Event(DirWD, "CLOSE_WRITE")
    BY <2>1, EventFacts, MaskFacts, Zenon
  <2>2. CASE watch[node] # NoWD /\ e = Event(watch[node], "CLOSE_WRITE")
    BY <2>2, EventFacts, MaskFacts, Zenon
  <2>. QED  BY <1>3, <2>1, <2>2, Zenon
<1>5. node' = node /\ text' \in [Nodes -> Versions]
  BY <1>0, <1>1, FreshType, LeadsType, Zenon DEF Change, Shape, TypeOK
<1>6. ~unheard' => (\E e \in E : Told(e)) \/ (On /\ Unwatched)
  <2>1. ASSUME node # 0, node \notin blind, On, E = {} PROVE Unwatched
    BY <1>3, <2>1, EventFacts, Zenon DEF Unwatched
  <2>. QED  BY <1>1, <1>4, <2>1, Noticed, Zenon
<1>7. ChangeRule(E, FALSE)
  BY <1>0, <1>1, <1>4, <1>5, <1>6, MaskFacts, Zenon DEF ChangeRule, Shape, TypeOK
<1>. QED  BY <1>1, <1>2, <1>4, <1>7, ChangeInv, Zenon

(* A file, or a link, renamed to the path.                                 *)
LEMMA ReplaceInv ==
  ASSUME IInv, Replace
  PROVE  IInv'
<1>. DEFINE rest == IF link \/ node = 0 THEN <<>> ELSE Deleted
            events == DirEvent("MOVED_TO") \o rest
            E == Elements(events)
<1>0. Shape /\ WatchInv
  BY Zenon DEF IInv
<1>1. Change(events, ~link) /\ Leads(Fresh, Fresh) /\ writing' = writing /\ link' \in BOOLEAN
  BY Zenon DEF Replace
<1>2. events \in Seq(Events) /\ E = Elements(DirEvent("MOVED_TO")) \cup Elements(rest)
  <2>1. DirEvent("MOVED_TO") \in Seq(Events) /\ Deleted \in Seq(Events)
    BY <1>0, MaskFacts, DirEventElements, DeletedElements, Zenon
  <2>2. rest \in Seq(Events)
    BY <2>1
  <2>. HIDE DEF rest
  <2>. QED  BY <2>1, <2>2, Concat, Zenon
<1>3. /\ \A e \in E : \/ dir /\ e = Event(DirWD, "MOVED_TO")
                      \/ watch[node] # NoWD /\ \E m \in Lost : e = Event(watch[node], m)
      /\ dir => Event(DirWD, "MOVED_TO") \in E
  <2>1. Elements(DirEvent("MOVED_TO")) = IF dir THEN {Event(DirWD, "MOVED_TO")} ELSE {}
    BY <1>0, MaskFacts, DirEventElements, Zenon
  <2>2. \A e \in Elements(rest) : watch[node] # NoWD /\ \E m \in Lost : e = Event(watch[node], m)
    BY <1>0, LostElements, Zenon
  <2>. HIDE DEF rest
  <2>. QED  BY <1>2, <2>1, <2>2, Zenon
<1>4. \A e \in E : e.mask # "CREATE" /\ e.wd \in 1 .. lastWD /\ Told(e)
  <2>. SUFFICES ASSUME NEW e \in E
                PROVE  e.mask # "CREATE" /\ e.wd \in 1 .. lastWD /\ Told(e)
    BY Zenon
  <2>1. CASE dir /\ e = Event(DirWD, "MOVED_TO")
    BY <2>1, EventFacts, MaskFacts, Zenon
  <2>2. CASE watch[node] # NoWD /\ \E m \in Lost : e = Event(watch[node], m)
    BY <2>2, LostTold, Zenon
  <2>. QED  BY <1>3, <2>1, <2>2, Zenon
<1>5. node' = Fresh /\ text' \in [Nodes -> Versions] /\ node' # node
  <2>1. /\ changes < MaxChanges /\ node <= changes + 1 /\ node \in Nodes
        /\ writing \in BOOLEAN
    BY <1>0, <1>1, Zenon DEF Change, WatchInv, Shape, TypeOK
  <2>2. Fresh \in Nodes /\ Fresh \in Versions /\ changes \in Nat
    BY <1>0, <2>1, FreshType, Zenon
  <2>3. Fresh # node
    BY <2>1, <2>2 DEF Fresh, Nodes
  <2>. QED  BY <1>0, <1>1, <2>2, <2>3, LeadsType, Zenon
<1>6. ~unheard' => \E e \in E : Told(e)
  <2>1. ASSUME ~dir PROVE E = {} /\ ~On
    BY <1>3, <2>1, EventFacts, Zenon
  <2>. QED  BY <1>1, <1>3, <1>4, <2>1, Noticed, Zenon
<1>7. On => \E e \in E : Told(e) /\ AddsWatch(e.mask)
  BY <1>3, <1>4, EventFacts, MaskFacts, ZenonT(60)
<1>8. ChangeRule(E, ~link)
  BY <1>0, <1>1, <1>4, <1>5, <1>6, <1>7, Zenon DEF ChangeRule, Shape, TypeOK
<1>. QED  BY <1>1, <1>2, <1>4, <1>8, ChangeInv, Zenon

(* The path removed or renamed: it leads nowhere.                          *)
LEMMA RemovePathInv ==
  ASSUME IInv, RemovePath
  PROVE  IInv'
<1>0. Shape /\ WatchInv
  BY Zenon DEF IInv
<1>1. ASSUME NEW events \in Seq(Events), NEW gone, Change(events, gone),
             \A e \in Elements(events) :
               watch[node] # NoWD /\ \E m \in Lost : e = Event(watch[node], m)
      PROVE  IInv'
  <2>1. /\ link' = FALSE /\ Leads(0, 0) /\ writing' = writing /\ (node = 0 => link)
        /\ writing \in BOOLEAN /\ changes < MaxChanges
    BY <1>0, <1>1, Zenon DEF RemovePath, Shape, TypeOK, Change
  <2>2. node' = 0 /\ text' \in [Nodes -> Versions]
    <3>1. 0 \in Nodes /\ 0 \in Versions
      BY <1>0, <2>1, FreshType, Zenon DEF Nodes, Versions
    <3>. QED  BY <1>0, <2>1, <3>1, LeadsType, Zenon
  <2>3. \A e \in Elements(events) : e.mask # "CREATE" /\ e.wd \in 1 .. lastWD /\ node # 0
    BY <1>1, LostTold, EventFacts, Zenon
  <2>4. ChangeRule(Elements(events), gone)
    BY <2>1, <2>2, <2>3, Zenon DEF ChangeRule
  <2>. QED  BY <1>1, <2>3, <2>4, ChangeInv, Zenon
<1>2. /\ \A e \in Elements(<<>>) : FALSE
      /\ <<>> \in Seq(Events) /\ Deleted \in Seq(Events) /\ FileEvent("MOVE_SELF") \in Seq(Events)
  BY <1>0, ElementsOf, DeletedElements, FileEventElements, MaskFacts
<1>3. CASE Change(IF link THEN <<>> ELSE Deleted, ~link)
  BY <1>0, <1>1, <1>2, <1>3, LostElements, Zenon
<1>4. CASE Change(IF link THEN <<>> ELSE FileEvent("MOVE_SELF"), FALSE)
  BY <1>0, <1>1, <1>2, <1>4, LostElements, Zenon
<1>. QED  BY <1>3, <1>4, Zenon DEF RemovePath

(* A file or a link created, of which nothing but the creation is told.    *)
LEMMA CreateInv ==
  ASSUME IInv, CreateFile \/ CreateLink
  PROVE  IInv'
<1>. DEFINE E == Elements(DirEvent("CREATE"))
<1>0. Shape /\ WatchInv
  BY Zenon DEF IInv
<1>1. /\ node = 0 /\ ~link /\ Change(DirEvent("CREATE"), FALSE) /\ changes < MaxChanges
      /\ Leads(Fresh, 0) \/ Leads(Fresh, Fresh)
      /\ writing' \in BOOLEAN /\ link' \in BOOLEAN
  BY <1>0, Zenon DEF CreateFile, CreateLink, Change, Shape, TypeOK
<1>2. DirEvent("CREATE") \in Seq(Events) /\ E = IF dir THEN {Event(DirWD, "CREATE")} ELSE {}
  BY <1>0, MaskFacts, DirEventElements, Zenon
<1>3. \A e \in E : e.mask = "CREATE" /\ e.wd \in 1 .. lastWD
  <2>. SUFFICES ASSUME NEW e \in E PROVE e.mask = "CREATE" /\ e.wd \in 1 .. lastWD
    BY Zenon
  <2>1. dir /\ e = Event(DirWD, "CREATE")
    BY <1>2, Zenon
  <2>. QED  BY <2>1, EventFacts, Zenon
<1>4. unheard' /\ Fresh \in blind'
  BY <1>1, <1>3, Noticed, Zenon
<1>5. node' = Fresh /\ text' \in [Nodes -> Versions] /\ node' # 0
  <2>1. Fresh \in Nodes /\ Fresh \in Versions /\ Fresh # 0
    BY <1>0, <1>1, FreshType, Zenon
  <2>2. 0 \in Versions
    BY ResolvConfAssumption DEF Versions
  <2>. QED  BY <1>0, <1>1, <2>1, <2>2, LeadsType, Zenon
<1>6. ChangeRule(E, FALSE)
  BY <1>1, <1>4, <1>5, Zenon DEF ChangeRule
<1>. QED  BY <1>1, <1>2, <1>3, <1>6, ChangeInv, Zenon

(* The file a link leads to replaced, removed or coming up.                *)
LEMMA ChangeTargetInv ==
  ASSUME IInv, ChangeTarget
  PROVE  IInv'
<1>. DEFINE events == IF node = 0 THEN <<>> ELSE Deleted
            E == Elements(events)
<1>0. Shape /\ WatchInv
  BY Zenon DEF IInv
<1>1. /\ link /\ Change(events, TRUE) /\ changes < MaxChanges
      /\ Leads(Fresh, Fresh) \/ (node # 0 /\ Leads(0, 0))
      /\ link' = link /\ writing' = writing /\ writing \in BOOLEAN /\ link \in BOOLEAN
  BY <1>0, Zenon DEF ChangeTarget, Change, Shape, TypeOK
<1>2. /\ events \in Seq(Events)
      /\ \A e \in E : watch[node] # NoWD /\ \E m \in Lost : e = Event(watch[node], m)
      /\ watch[node] # NoWD => Event(watch[node], "IGNORED") \in E
  <2>1. <<>> \in Seq(Events) /\ Deleted \in Seq(Events)
    BY <1>0, DeletedElements
  <2>. QED  BY <1>0, <2>1, LostElements, EventFacts, Zenon
<1>3. \A e \in E : e.mask # "CREATE" /\ e.wd \in 1 .. lastWD /\ Told(e) /\ AddsWatch(e.mask)
  BY <1>2, LostTold, Zenon
<1>4. /\ node' \in {0, Fresh} /\ text' \in [Nodes -> Versions] /\ node' # node
  <2>1. Fresh \in Nodes /\ Fresh \in Versions /\ changes \in Nat /\ 0 \in Nodes
    BY <1>0, <1>1, FreshType, Zenon
  <2>2. 0 \in Versions
    BY ResolvConfAssumption DEF Versions
  <2>3. node <= changes + 1 /\ node \in Nodes
    BY <1>0, Zenon DEF WatchInv, Shape, TypeOK
  <2>4. Fresh # node
    BY <2>1, <2>3 DEF Fresh, Nodes
  <2>. QED  BY <1>0, <1>1, <2>1, <2>2, <2>4, LeadsType, Zenon
<1>5. (\E e \in E : TRUE) \/ (On /\ Unwatched) \/ (unheard' /\ Fresh \in blind')
  <2>1. ASSUME node # 0, node \notin blind, On, E = {} PROVE Unwatched
    BY <1>1, <1>2, <2>1, Zenon DEF Unwatched
  <2>. QED  BY <1>1, <2>1, Noticed, Zenon
<1>6. ChangeRule(E, TRUE)
  BY <1>1, <1>3, <1>4, <1>5, Zenon DEF ChangeRule
<1>. QED  BY <1>1, <1>2, <1>3, <1>6, ChangeInv, Zenon

(* A file about to be written: its text does not count until it is closed. *)
LEMMA TruncateInv ==
  ASSUME IInv, Truncate
  PROVE  IInv'
<1>0. Shape /\ WatchInv /\ NoticeInv
  BY Zenon DEF IInv
<1>1. /\ Leads(node, 0) /\ writing' = TRUE
      /\ link' = link /\ changes' = changes /\ dir' = dir /\ watch' = watch /\ lastWD' = lastWD
      /\ queue' = queue /\ config' = config /\ fileWD' = fileWD /\ loader' = loader
      /\ blind' = blind /\ unheard' = unheard
  BY Zenon DEF Truncate, kernel, ghosts
<1>2. node' = node /\ text' \in [Nodes -> Versions]
  <2>1. node \in Nodes
    BY <1>0, Zenon DEF Shape, TypeOK
  <2>2. 0 \in Versions
    BY ResolvConfAssumption DEF Versions
  <2>. QED  BY <1>0, <1>1, <2>1, <2>2, LeadsType, Zenon
<1>3. Shape'
  BY <1>0, <1>1, <1>2, ZenonT(60) DEF Shape, TypeOK
<1>4. WatchInv'
  BY <1>0, <1>1, <1>2, Zenon DEF WatchInv, On, At
<1>5. NoticeInv'
  BY <1>0, <1>1, <1>2, Zenon DEF NoticeInv, On, At, Unwatched, WillWatch, Told
<1>6. CurrentInv'
  BY <1>1, Zenon DEF CurrentInv
<1>. QED  BY <1>3, <1>4, <1>5, <1>6, Zenon DEF IInv

(* A goroutine at work on the configuration leaves the file and the        *)
(* watches alone.                                                          *)
LEMMA LoaderInv ==
  ASSUME IInv, UNCHANGED <<file, kernel, fileWD, blind>>,
         unheard' \in BOOLEAN, config' \in Versions \cup {Nil},
         loader' \in [Loaders -> Goroutines],
         loader'["watcher"].pc \in {"off", "wait", "add", "read", "store"},
         loader'["start"].pc \in {"read", "store", "watch dir", "watch file", "done"},
         On' <=> On,
         At("watcher", "add") \/ At("watcher", "add")' =>
           loader'["watcher"] = loader["watcher"] /\ (unheard => unheard'),
         At("start", "watch file")' <=> At("start", "watch file"),
         At("start", "done")' <=> At("start", "done"),
         unheard' \/ \A e \in Elements(queue) : e.mask # "CREATE"
  PROVE  Shape' /\ WatchInv' /\ NoticeInv'
<1>0. Shape /\ WatchInv /\ NoticeInv
  BY Zenon DEF IInv
<1>1. /\ node' = node /\ text' = text /\ writing' = writing
      /\ link' = link /\ changes' = changes /\ dir' = dir /\ watch' = watch /\ lastWD' = lastWD
      /\ queue' = queue /\ fileWD' = fileWD /\ blind' = blind
  BY Zenon DEF file, kernel
<1>2. Shape'
  <2>1. \A x \in Loaders : loader'[x] \in Goroutines
    BY Zenon
  <2>2. \A g \in Goroutines : g.got \in Versions \cup {Nil}
    BY DEF Goroutines
  <2>. QED  BY <1>0, <1>1, <2>1, <2>2, Zenon DEF Shape, TypeOK
<1>3. WatchInv'
  BY <1>0, <1>1, Zenon DEF WatchInv, At
<1>4. NoticeInv'
  BY <1>0, <1>1, Zenon DEF NoticeInv, Unwatched, WillWatch, Told, At
<1>. QED  BY <1>2, <1>3, <1>4

(* load reads the file.                                                    *)
LEMMA ReadFileInv ==
  ASSUME IInv, NEW x \in Loaders, ReadFile(x)
  PROVE  IInv'
<1>0. Shape /\ WatchInv /\ NoticeInv /\ CurrentInv
  BY Zenon DEF IInv
<1>1. /\ At(x, "read")
      /\ loader' = [loader EXCEPT ![x].pc = "store",
                                  ![x].got = IF node = 0 THEN Nil ELSE text[node]]
      /\ unheard' = (unheard /\ ~(x = "watcher" /\ CreatesHandled))
      /\ UNCHANGED <<file, kernel, fileWD, blind>> /\ config' = config
  BY Zenon DEF ReadFile
<1>2. text \in [Nodes -> Versions] /\ node \in Nodes /\ loader \in [Loaders -> Goroutines]
      /\ config \in Versions \cup {Nil} /\ unheard \in BOOLEAN
  BY <1>0, Zenon DEF Shape, TypeOK
<1>3. /\ loader' \in [Loaders -> Goroutines]
      /\ loader'[x].pc = "store" /\ (node # 0 => loader'[x].got = text[node])
      /\ \A y \in Loaders : y # x => loader'[y] = loader[y]
  BY <1>1, <1>2, ZenonT(60) DEF Goroutines, Places
<1>4. "start" \in Loaders /\ "watcher" \in Loaders /\ "start" # "watcher"
  BY DEF Loaders
<1>5. /\ loader'["watcher"].pc \in {"off", "wait", "add", "read", "store"}
      /\ loader'["start"].pc \in {"read", "store", "watch dir", "watch file", "done"}
      /\ On' <=> On
      /\ At("watcher", "add") \/ At("watcher", "add")' => x # "watcher"
      /\ At("start", "watch file")' <=> At("start", "watch file")
      /\ At("start", "done")' <=> At("start", "done")
  BY <1>0, <1>1, <1>3, <1>4 DEF Shape, On, At
<1>6. /\ unheard' \in BOOLEAN
      /\ unheard' \/ \A e \in Elements(queue) : e.mask # "CREATE"
      /\ x # "watcher" => unheard' = unheard
  BY <1>0, <1>1, <1>2, Zenon DEF NoticeInv, CreatesHandled, Elements
<1>7. Shape' /\ WatchInv' /\ NoticeInv'
  BY <1>1, <1>2, <1>3, <1>4, <1>5, <1>6, LoaderInv, Zenon
<1>8. CurrentInv'
  <2>1. node' = node /\ text' = text /\ writing' = writing /\ queue' = queue /\ fileWD' = fileWD
    BY <1>1, Zenon DEF file, kernel
  <2>2. ASSUME x \in {"start", "watcher"}, node' # 0 PROVE Reading(x)'
    BY <1>3, <2>1, <2>2, Zenon DEF Reading, At
  <2>3. CASE x \in {"start", "watcher"}
    BY <2>2, <2>3, Zenon DEF CurrentInv
  <2>4. CASE x \notin {"start", "watcher"}
    <3>1. /\ loader'["start"] = loader["start"] /\ loader'["watcher"] = loader["watcher"]
          /\ unheard' = unheard
      BY <1>3, <1>4, <1>6, <2>4, Zenon
    <3>. QED  BY <1>0, <1>1, <2>1, <3>1, Zenon DEF CurrentInv, Reading, Told, At, On
  <2>. QED  BY <2>3, <2>4
<1>. QED  BY <1>7, <1>8, Zenon DEF IInv

(* load stores what was read.  At the start nobody else reads yet; the     *)
(* watcher has the text as it was when it read the file, and what came     *)
(* since is in the queue.                                                  *)
LEMMA StoreConfigInv ==
  ASSUME IInv, NEW x \in Loaders, StoreConfig(x)
  PROVE  IInv'
<1>0. Shape /\ WatchInv /\ NoticeInv /\ CurrentInv
  BY Zenon DEF IInv
<1>1. /\ At(x, "store")
      /\ config' = IF loader[x].got = Nil THEN config ELSE loader[x].got
      /\ loader' = [loader EXCEPT ![x] = [@ EXCEPT !.pc = AfterLoad(x), !.got = Nil]]
      /\ unheard' = (unheard \/ (x \in Getters /\ node # 0 /\ config' # text[node]))
      /\ UNCHANGED <<file, kernel, fileWD, blind>>
  BY Zenon DEF StoreConfig
<1>2. /\ text \in [Nodes -> Versions] /\ node \in Nodes /\ loader \in [Loaders -> Goroutines]
      /\ config \in Versions \cup {Nil} /\ unheard \in BOOLEAN
      /\ loader[x].got \in Versions \cup {Nil}
  BY <1>0, Zenon DEF Shape, TypeOK
<1>3. /\ loader' \in [Loaders -> Goroutines]
      /\ loader'[x].pc = AfterLoad(x)
      /\ \A y \in Loaders : y # x => loader'[y] = loader[y]
  <2>1. AfterLoad(x) \in Places
    BY DEF AfterLoad, Places
  <2>. QED  BY <1>1, <1>2, <2>1, Zenon DEF Goroutines
<1>4. /\ "start" \in Loaders /\ "watcher" \in Loaders /\ "start" # "watcher"
      /\ AfterLoad("start") = "watch dir" /\ AfterLoad("watcher") = "wait"
  BY DEF Loaders, AfterLoad
<1>5. /\ loader'["watcher"].pc \in {"off", "wait", "add", "read", "store"}
      /\ loader'["start"].pc \in {"read", "store", "watch dir", "watch file", "done"}
      /\ On' <=> On
      /\ At("watcher", "add") \/ At("watcher", "add")' => x # "watcher"
      /\ At("start", "watch file")' <=> At("start", "watch file")
      /\ At("start", "done")' <=> At("start", "done")
  BY <1>0, <1>1, <1>3, <1>4 DEF Shape, On, At
<1>6. /\ unheard' \in BOOLEAN /\ (unheard => unheard')
      /\ unheard' \/ \A e \in Elements(queue) : e.mask # "CREATE"
      /\ config' \in Versions \cup {Nil}
  BY <1>0, <1>1, <1>2, Zenon DEF NoticeInv
<1>7. Shape' /\ WatchInv' /\ NoticeInv'
  BY <1>1, <1>2, <1>3, <1>4, <1>5, <1>6, LoaderInv, Zenon
<1>8. CurrentInv'
  <2>1. node' = node /\ text' = text /\ writing' = writing /\ queue' = queue /\ fileWD' = fileWD
    BY <1>1, Zenon DEF file, kernel
  <2>2. text[node] # Nil
    <3>1. text[node] \in Versions
      BY <1>2, Zenon
    <3>. QED  BY <3>1, ResolvConfAssumption DEF Versions, Nil
  <2>3. loader[x].got = text[node] => config' = text[node]
    BY <1>1, <2>2, Zenon
  <2>4. \A e : Told(e) => Told(e)'
    BY <2>1, Zenon DEF Told
  <2>5. CASE x = "start"
    <3>1. ~On /\ ~At("start", "read") /\ ~At("start", "done") /\ ~At("start", "store")'
      <4>1. ~At("start", "done") /\ ~At("start", "read") /\ ~At("start", "store")'
        BY <1>1, <1>3, <1>4, <2>5 DEF At
      <4>. QED  BY <1>0, <4>1, Zenon DEF WatchInv
    <3>2. ~Reading("watcher") /\ ~At("watcher", "add") /\ ~At("watcher", "store")'
      <4>1. loader'["watcher"] = loader["watcher"]
        BY <1>3, <1>4, <2>5, Zenon
      <4>. QED  BY <3>1, <4>1 DEF Reading, At, On
    <3>3. At("start", "store") /\ (Reading("start") => config' = text[node])
      BY <1>1, <2>3, <2>5, <3>1, Zenon DEF Reading
    <3>. QED  BY <1>0, <1>6, <2>1, <2>4, <3>1, <3>2, <3>3, Zenon DEF CurrentInv
  <2>6. CASE x = "watcher"
    <3>1. On /\ ~At("watcher", "read") /\ ~At("watcher", "add") /\ ~At("watcher", "store")'
      BY <1>1, <1>3, <1>4, <2>6 DEF On, At
    <3>2. At("start", "done")
      BY <1>0, <3>1, Zenon DEF WatchInv
    <3>3. ~Reading("start") /\ ~At("start", "store")'
      <4>1. loader'["start"] = loader["start"]
        BY <1>3, <1>4, <2>6, Zenon
      <4>. QED  BY <3>2, <4>1 DEF Reading, At
    <3>4. At("watcher", "store") /\ (Reading("watcher") => config' = text[node])
      BY <1>1, <2>3, <2>6, <3>1, Zenon DEF Reading
    <3>. QED  BY <1>0, <1>6, <2>1, <2>4, <3>1, <3>3, <3>4, Zenon DEF CurrentInv
  <2>7. CASE x \in Getters /\ x # "start" /\ x # "watcher"
    <3>1. loader'["start"] = loader["start"] /\ loader'["watcher"] = loader["watcher"]
      BY <1>3, <1>4, <2>7, Zenon
    <3>2. node # 0 /\ ~unheard' => config' = text[node]
      BY <1>1, <2>7, Zenon
    <3>. QED  BY <1>0, <1>6, <2>1, <2>4, <3>1, <3>2, Zenon DEF CurrentInv, Reading, At, On
  <2>. QED  BY <2>5, <2>6, <2>7, Zenon DEF Loaders
<1>. QED  BY <1>7, <1>8, Zenon DEF IInv

(* GetResolverAddress finds no configuration and loads one.                *)
LEMMA GetInv ==
  ASSUME IInv, NEW x \in Loaders, Get(x)
  PROVE  IInv'
<1>0. Shape /\ WatchInv /\ NoticeInv /\ CurrentInv
  BY Zenon DEF IInv
<1>1. /\ At(x, "idle") /\ loader' = [loader EXCEPT ![x].pc = "read"]
      /\ UNCHANGED <<file, kernel, fileWD, blind>> /\ config' = config /\ unheard' = unheard
  BY Zenon DEF Get, Go, ghosts
<1>2. loader \in [Loaders -> Goroutines] /\ config \in Versions \cup {Nil} /\ unheard \in BOOLEAN
  BY <1>0, Zenon DEF Shape, TypeOK
<1>3. "start" \in Loaders /\ "watcher" \in Loaders
  BY DEF Loaders
<1>4. x # "start" /\ x # "watcher"
  BY <1>0, <1>1 DEF Shape, At
<1>5. /\ loader' \in [Loaders -> Goroutines]
      /\ loader'["start"] = loader["start"] /\ loader'["watcher"] = loader["watcher"]
  BY <1>1, <1>2, <1>3, <1>4, ZenonT(60) DEF Goroutines, Places
<1>6. \A p : (At("start", p)' <=> At("start", p)) /\ (At("watcher", p)' <=> At("watcher", p))
  BY <1>5, Zenon DEF At
<1>7. Shape' /\ WatchInv' /\ NoticeInv'
  <2>1. /\ loader'["watcher"].pc \in {"off", "wait", "add", "read", "store"}
        /\ loader'["start"].pc \in {"read", "store", "watch dir", "watch file", "done"}
    BY <1>0, <1>5, Zenon DEF Shape
  <2>2. unheard' \/ \A e \in Elements(queue) : e.mask # "CREATE"
    BY <1>0, <1>1, Zenon DEF NoticeInv
  <2>3. On' <=> On
    BY <1>6, Zenon DEF On
  <2>. QED  BY <1>1, <1>2, <1>5, <1>6, <2>1, <2>2, <2>3, LoaderInv, Zenon
<1>8. CurrentInv'
  <2>1. node' = node /\ text' = text /\ writing' = writing /\ queue' = queue /\ fileWD' = fileWD
    BY <1>1, Zenon DEF file, kernel
  <2>. QED  BY <1>0, <1>1, <1>5, <2>1, Zenon DEF CurrentInv, Reading, Told, At, On
<1>. QED  BY <1>7, <1>8, Zenon DEF IInv

(* startWatch watches the directory, or goes without inotify.              *)
LEMMA AddDirWatchInv ==
  ASSUME IInv, AddDirWatch
  PROVE  IInv'
<1>0. Shape /\ WatchInv /\ NoticeInv /\ CurrentInv
  BY Zenon DEF IInv
<1>1. /\ At("start", "watch dir")
      /\ \E p \in {"watch file", "done"} :
           /\ loader' = [loader EXCEPT !["start"].pc = p]
           /\ \/ p = "watch file" /\ dir' = TRUE /\ lastWD' = DirWD
              \/ p = "done" /\ dir' = dir /\ lastWD' = lastWD
      /\ node' = node /\ text' = text /\ writing' = writing /\ link' = link /\ changes' = changes
      /\ watch' = watch /\ queue' = queue /\ config' = config /\ fileWD' = fileWD
      /\ blind' = blind /\ unheard' = unheard
  BY Zenon DEF AddDirWatch, Go, file, ghosts
<1>2. loader \in [Loaders -> Goroutines] /\ "start" \in Loaders /\ "watcher" \in Loaders
  BY <1>0 DEF Shape, Loaders
<1>3. /\ loader' \in [Loaders -> Goroutines]
      /\ loader'["watcher"] = loader["watcher"]
      /\ \/ loader'["start"].pc = "watch file" /\ dir' = TRUE /\ lastWD' = DirWD
         \/ loader'["start"].pc = "done" /\ dir' = dir /\ lastWD' = lastWD
  <2>1. PICK p \in {"watch file", "done"} :
          /\ loader' = [loader EXCEPT !["start"].pc = p]
          /\ \/ p = "watch file" /\ dir' = TRUE /\ lastWD' = DirWD
             \/ p = "done" /\ dir' = dir /\ lastWD' = lastWD
    BY <1>1, Zenon
  <2>2. p \in Places
    BY DEF Places
  <2>3. loader' \in [Loaders -> Goroutines] /\ loader'["watcher"] = loader["watcher"]
        /\ loader'["start"].pc = p
    BY <1>2, <2>1, <2>2 DEF Goroutines
  <2>. QED  BY <2>1, <2>3, Zenon
<1>4. ~dir /\ ~On /\ lastWD = NoWD /\ fileWD = NoWD
  <2>1. ~At("start", "done") /\ ~(loader["start"].pc \in {"watch file", "done"})
    BY <1>1 DEF At
  <2>. QED  BY <1>0, <2>1, Zenon DEF WatchInv
<1>5. \/ dir' = TRUE /\ lastWD' = DirWD /\ loader'["start"].pc = "watch file"
      \/ dir' = FALSE /\ lastWD' = NoWD /\ loader'["start"].pc = "done"
  <2>1. dir \in BOOLEAN
    BY <1>0, Zenon DEF Shape, TypeOK
  <2>2. dir = FALSE
    BY <1>4, <2>1
  <2>. QED  BY <1>1, <1>3, <1>4, <2>2, Zenon
<1>6. Shape'
  <2>0. lastWD' \in {NoWD, DirWD}
    BY <1>5, Zenon
  <2>1. lastWD' \in Nat /\ \A w \in 0 .. lastWD : w \in 0 .. lastWD'
    BY <1>4, <2>0 DEF NoWD, DirWD
  <2>2. \A w \in 1 .. lastWD : w \in 1 .. lastWD'
    BY <1>4, <2>0 DEF NoWD, DirWD
  <2>3. watch \in [Nodes -> 0 .. lastWD']
    <3>1. watch \in [Nodes -> 0 .. lastWD]
      BY <1>0, Zenon DEF Shape, TypeOK
    <3>. QED  BY <2>1, <3>1
  <2>4. \A x \in Loaders : loader'[x].got \in Versions \cup {Nil}
    BY <1>3 DEF Goroutines
  <2>5. TypeOK'
    BY <1>0, <1>1, <1>4, <1>5, <2>1, <2>2, <2>3, <2>4, Zenon DEF Shape, TypeOK
  <2>. QED  BY <1>0, <1>1, <1>3, <1>5, <2>1, <2>5, Zenon DEF Shape
<1>7. ~On' /\ (\A p : At("watcher", p)' <=> At("watcher", p))
  BY <1>3, <1>4, Zenon DEF On, At
<1>8. WatchInv'
  <2>1. DirWD >= DirWD /\ "done" # "watch file"
    BY DEF DirWD
  <2>. QED  BY <1>0, <1>1, <1>4, <1>5, <1>7, <2>1, Zenon DEF WatchInv, At
<1>9. NoticeInv'
  BY <1>0, <1>1, <1>3, <1>7, Zenon DEF NoticeInv, At
<1>10. CurrentInv'
  <2>1. ~Reading("start") /\ ~At("start", "store")'
    BY <1>1, <1>5 DEF Reading, At
  <2>2. ~Reading("watcher") /\ ~At("watcher", "add") /\ ~At("watcher", "store")'
    BY <1>4, <1>7 DEF Reading, At, On
  <2>3. ~At("start", "done")
    BY <1>1 DEF At
  <2>4. \A e : Told(e)' <=> Told(e)
    BY <1>1, Zenon DEF Told
  <2>. QED  BY <1>0, <1>1, <2>1, <2>2, <2>3, <2>4, Zenon DEF CurrentInv
<1>. QED  BY <1>6, <1>8, <1>9, <1>10, Zenon DEF IInv

(* Adding a watch of the file the path leads to.                           *)
LEMMA AddFileWatchFacts ==
  ASSUME IInv, dir, AddFileWatch, node' = node, changes' = changes, queue' = queue
  PROVE  /\ lastWD' \in Nat /\ lastWD' >= DirWD
         /\ watch' \in [Nodes -> 0 .. lastWD'] /\ fileWD' \in 0 .. lastWD' /\ fileWD' # DirWD
         /\ \A i \in DOMAIN queue : queue[i].wd \in 1 .. lastWD'
         /\ node # 0 => watch'[node] # NoWD
         /\ \A n \in Nodes : watch'[n] # DirWD /\ (n = 0 \/ n > changes + 1 => watch'[n] = NoWD)
         /\ watch'[node] # NoWD => fileWD' = watch'[node]
         /\ \A e \in Elements(queue) : e.mask \in Lost => e.wd # watch'[node]
<1>0. Shape /\ WatchInv
  BY Zenon DEF IInv
<1>1. /\ lastWD \in Nat /\ watch \in [Nodes -> 0 .. lastWD] /\ fileWD \in 0 .. lastWD
      /\ node \in Nodes
      /\ fileWD # NoWD => fileWD # DirWD
      /\ \A i \in DOMAIN queue : queue[i].wd \in 1 .. lastWD
  BY <1>0, Zenon DEF Shape, TypeOK
<1>2. /\ lastWD >= DirWD /\ node <= changes + 1
      /\ \A n \in Nodes : watch[n] # DirWD /\ (n = 0 \/ n > changes + 1 => watch[n] = NoWD)
      /\ watch[node] # NoWD => fileWD = watch[node]
      /\ \A e \in Elements(queue) : e.mask \in Lost => e.wd # watch[node]
  BY <1>0, Zenon DEF WatchInv
<1>3. NoWD # DirWD
  BY DEF NoWD, DirWD
<1>4. CASE node = 0 \/ watch[node] # NoWD
  <2>1. lastWD' = lastWD /\ fileWD' = fileWD
    BY <1>2, <1>4, Zenon DEF AddFileWatch
  <2>2. watch' = watch
    <3>1. CASE node = 0
      BY <3>1, Zenon DEF AddFileWatch
    <3>2. CASE node # 0
      BY <1>1, <1>2, <1>4, <2>1, <3>2, ZenonT(60) DEF AddFileWatch
    <3>. QED  BY <3>1, <3>2
  <2>. QED  BY <1>1, <1>2, <1>3, <1>4, <2>1, <2>2, Zenon
<1>5. CASE node # 0 /\ watch[node] = NoWD
  <2>1. lastWD' = lastWD + 1 /\ fileWD' = lastWD + 1 /\ watch' = [watch EXCEPT ![node] = lastWD + 1]
    BY <1>5, Zenon DEF AddFileWatch
  <2>2. /\ lastWD + 1 \in Nat /\ lastWD + 1 >= DirWD /\ lastWD + 1 # DirWD /\ lastWD + 1 # NoWD
        /\ lastWD + 1 \in 0 .. lastWD + 1
        /\ \A w \in 0 .. lastWD : w \in 0 .. lastWD + 1
        /\ \A w \in 1 .. lastWD : w \in 1 .. lastWD + 1 /\ w # lastWD + 1
    BY <1>1, <1>2 DEF NoWD, DirWD
  <2>3. /\ watch' \in [Nodes -> 0 .. lastWD + 1] /\ watch'[node] = lastWD + 1
        /\ \A n \in Nodes : n # node => watch'[n] = watch[n]
    BY <1>1, <2>1, <2>2
  <2>4. ~(node > changes + 1)
    <3>1. node \in Nat /\ changes \in Nat
      <4>1. changes \in 0 .. MaxChanges
        BY <1>0, Zenon DEF Shape, TypeOK
      <4>. QED  BY <1>1, <4>1 DEF Nodes
    <3>. QED  BY <1>2, <3>1
  <2>5. \A e \in Elements(queue) : e.wd # lastWD + 1
    BY <1>1, <2>2, Zenon DEF Elements
  <2>. QED  BY <1>1, <1>2, <1>3, <1>5, <2>1, <2>2, <2>3, <2>4, <2>5, Zenon
<1>. QED  BY <1>4, <1>5

(* The watches agree with fileWD afterwards.                               *)
LEMMA AddFileWatchInv ==
  ASSUME IInv, dir, AddFileWatch, node' = node, changes' = changes, queue' = queue, dir' = dir,
         On', At("start", "done")', ~At("start", "watch file")'
  PROVE  WatchInv'
<1>1. /\ lastWD' >= DirWD
      /\ \A n \in Nodes : watch'[n] # DirWD /\ (n = 0 \/ n > changes + 1 => watch'[n] = NoWD)
      /\ watch'[node] # NoWD => fileWD' = watch'[node]
      /\ \A e \in Elements(queue) : e.mask \in Lost => e.wd # watch'[node]
  BY AddFileWatchFacts, Zenon
<1>2. loader'["start"].pc \in {"watch file", "done"}
  BY Zenon DEF At
<1>3. \A n \in Nodes : watch'[n] # DirWD /\ (~On' \/ n = 0 \/ n > changes' + 1 => watch'[n] = NoWD)
  BY <1>1, Zenon
<1>4. node' <= changes' + 1
  BY Zenon DEF IInv, WatchInv
<1>5. \A e \in Elements(queue') : e.mask \in Lost => e.wd # watch'[node']
  BY <1>1, Zenon
<1>6. watch'[node'] # NoWD => fileWD' = watch'[node']
  BY <1>1, Zenon
<1>. QED  BY <1>1, <1>2, <1>3, <1>4, <1>5, <1>6, Zenon DEF WatchInv

(* startWatch watches the file and starts the goroutine.                   *)
LEMMA StartWatcherInv ==
  ASSUME IInv, StartWatcher
  PROVE  IInv'
<1>0. Shape /\ WatchInv /\ NoticeInv /\ CurrentInv
  BY Zenon DEF IInv
<1>1. /\ At("start", "watch file") /\ AddFileWatch
      /\ loader' = [loader EXCEPT !["start"].pc = "done", !["watcher"].pc = "wait"]
      /\ node' = node /\ text' = text /\ writing' = writing /\ link' = link /\ changes' = changes
      /\ dir' = dir /\ queue' = queue /\ config' = config /\ blind' = blind /\ unheard' = unheard
  BY Zenon DEF StartWatcher, file, ghosts
<1>2. dir /\ ~On /\ fileWD = NoWD
  BY <1>0, <1>1, Zenon DEF WatchInv
<1>3. /\ loader \in [Loaders -> Goroutines] /\ "start" \in Loaders /\ "watcher" \in Loaders
      /\ "start" # "watcher"
  BY <1>0 DEF Shape, Loaders
<1>4. /\ loader' \in [Loaders -> Goroutines]
      /\ loader'["start"].pc = "done" /\ loader'["watcher"].pc = "wait"
  BY <1>1, <1>3, ZenonT(60) DEF Goroutines, Places
<1>5. On' /\ At("start", "done")' /\ ~At("start", "watch file")' /\ ~At("watcher", "add")'
      /\ ~At("start", "store")' /\ ~At("watcher", "store")'
  BY <1>4 DEF On, At
<1>6. Shape'
  <2>1. \A x \in Loaders : loader'[x].got \in Versions \cup {Nil}
    BY <1>4 DEF Goroutines
  <2>2. TypeOK'
    BY <1>0, <1>1, <1>2, <2>1, AddFileWatchFacts, Zenon DEF Shape, TypeOK
  <2>. QED  BY <1>0, <1>1, <1>2, <1>4, <2>2, AddFileWatchFacts, Zenon DEF Shape
<1>7. WatchInv'
  BY <1>1, <1>2, <1>5, AddFileWatchInv, Zenon
<1>8. NoticeInv'
  BY <1>0, <1>1, <1>2, <1>5, AddFileWatchFacts, Zenon DEF NoticeInv, Unwatched
<1>9. CurrentInv'
  <2>1. ~Reading("start") /\ ~Reading("watcher") /\ ~At("watcher", "add") /\ ~At("start", "done")
    BY <1>1, <1>2 DEF Reading, At, On
  <2>2. \A e \in Elements(queue) : Told(e) => Told(e)'
    BY <1>0, <1>2, EventType, Zenon DEF Told
  <2>. QED  BY <1>0, <1>1, <1>5, <2>1, <2>2, Zenon DEF CurrentInv
<1>. QED  BY <1>6, <1>7, <1>8, <1>9, Zenon DEF IInv

(* handleEvent adds the watch, and goes on to read the file unless the     *)
(* event was a creation.                                                   *)
LEMMA WatchAgainInv ==
  ASSUME IInv, WatchAgain
  PROVE  IInv'
<1>0. Shape /\ WatchInv /\ NoticeInv /\ CurrentInv
  BY Zenon DEF IInv
<1>1. /\ At("watcher", "add") /\ AddFileWatch
      /\ loader' = [loader EXCEPT
           !["watcher"].pc = IF loader["watcher"].reload THEN "read" ELSE "wait",
           !["watcher"].reload = FALSE]
      /\ node' = node /\ text' = text /\ writing' = writing /\ link' = link /\ changes' = changes
      /\ dir' = dir /\ queue' = queue /\ config' = config /\ blind' = blind /\ unheard' = unheard
  BY Zenon DEF WatchAgain, file, ghosts
<1>2. On
  BY <1>1 DEF On, At
<1>3. dir /\ At("start", "done")
  BY <1>0, <1>2, Zenon DEF WatchInv
<1>4. /\ loader \in [Loaders -> Goroutines] /\ "start" \in Loaders /\ "watcher" \in Loaders
      /\ "start" # "watcher"
  BY <1>0 DEF Shape, Loaders
<1>5. /\ loader' \in [Loaders -> Goroutines] /\ loader'["start"] = loader["start"]
      /\ loader'["watcher"].pc = IF loader["watcher"].reload THEN "read" ELSE "wait"
  <2>. DEFINE p == IF loader["watcher"].reload THEN "read" ELSE "wait"
  <2>1. p \in Places
    BY DEF Places
  <2>2. loader' = [loader EXCEPT !["watcher"].pc = p, !["watcher"].reload = FALSE]
    BY <1>1, Zenon
  <2>. HIDE DEF p
  <2>3. /\ loader' \in [Loaders -> Goroutines] /\ loader'["start"] = loader["start"]
        /\ loader'["watcher"].pc = p
    BY <1>4, <2>1, <2>2, ZenonT(60) DEF Goroutines
  <2>. QED  BY <2>3, Zenon DEF p
<1>6. On' /\ At("start", "done")' /\ ~At("start", "watch file")' /\ ~At("watcher", "add")'
  BY <1>3, <1>5 DEF On, At
<1>7. Shape'
  <2>1. \A x \in Loaders : loader'[x].got \in Versions \cup {Nil}
    BY <1>5 DEF Goroutines
  <2>2. TypeOK'
    BY <1>0, <1>1, <1>3, <2>1, AddFileWatchFacts, Zenon DEF Shape, TypeOK
  <2>. QED  BY <1>0, <1>1, <1>3, <1>5, <2>2, AddFileWatchFacts, Zenon DEF Shape
<1>8. WatchInv'
  BY <1>1, <1>3, <1>6, AddFileWatchInv, Zenon
<1>9. NoticeInv'
  BY <1>0, <1>1, <1>3, <1>6, AddFileWatchFacts, Zenon DEF NoticeInv, Unwatched
<1>10. CurrentInv'
  BY <1>0, <1>1, <1>5, Zenon DEF NoticeInv, CurrentInv, Reading, At
<1>. QED  BY <1>7, <1>8, <1>9, <1>10, Zenon DEF IInv

(* handleEvent takes an event from the queue.  It forgets fileWD only for  *)
(* an event that makes it add a watch and read.                            *)
LEMMA HandleEventInv ==
  ASSUME IInv, HandleEvent
  PROVE  IInv'
<1>. DEFINE e == Head(queue)
            isPathEvent == e.wd = fileWD \/ e.wd = DirWD
<1>0. Shape /\ WatchInv /\ NoticeInv /\ CurrentInv
  BY Zenon DEF IInv
<1>1. /\ At("watcher", "wait") /\ queue # <<>> /\ queue' = Tail(queue)
      /\ fileWD' = IF e.wd = fileWD /\ e.mask \in Lost THEN NoWD ELSE fileWD
      /\ loader' = [loader EXCEPT !["watcher"] =
           IF ~isPathEvent THEN @
           ELSE IF AddsWatch(e.mask) THEN [@ EXCEPT !.pc = "add", !.reload = Reloads(e.mask)]
           ELSE [@ EXCEPT !.pc = "read"]]
      /\ node' = node /\ text' = text /\ writing' = writing /\ link' = link /\ changes' = changes
      /\ dir' = dir /\ watch' = watch /\ lastWD' = lastWD /\ config' = config
      /\ blind' = blind /\ unheard' = unheard
  BY Zenon DEF HandleEvent, file, ghosts
<1>2. /\ queue' \in Seq(Events) /\ e \in Elements(queue)
      /\ Elements(queue) = {e} \cup Elements(queue')
  <2>1. queue \in Seq(Events)
    BY <1>0, Zenon DEF Shape
  <2>2. Tail(queue) \in Seq(Events) /\ Elements(queue) = {e} \cup Elements(Tail(queue))
    BY <1>1, <2>1, ElementsOf
  <2>. QED  BY <1>1, <2>2, Zenon
<1>3. /\ loader \in [Loaders -> Goroutines] /\ "start" \in Loaders /\ "watcher" \in Loaders
      /\ "start" # "watcher"
  BY <1>0 DEF Shape, Loaders
<1>4. e.mask \in Masks /\ Reloads(e.mask) \in BOOLEAN
  <2>1. e \in Events
    BY <1>0, <1>2, EventType, Zenon
  <2>. QED  BY <2>1 DEF Events, Reloads
<1>. HIDE DEF e, isPathEvent
<1>5. /\ loader' \in [Loaders -> Goroutines] /\ loader'["start"] = loader["start"]
      /\ ~isPathEvent => loader' = loader
      /\ isPathEvent /\ AddsWatch(e.mask) =>
           loader'["watcher"].pc = "add" /\ loader'["watcher"].reload = Reloads(e.mask)
      /\ isPathEvent /\ ~AddsWatch(e.mask) => loader'["watcher"].pc = "read"
  <2>0. loader["watcher"] \in Goroutines
    BY <1>3, Zenon
  <2>1. CASE ~isPathEvent
    BY <1>1, <1>3, <2>1
  <2>2. CASE isPathEvent /\ AddsWatch(e.mask)
    <3>1. loader' = [loader EXCEPT !["watcher"] =
                       [@ EXCEPT !.pc = "add", !.reload = Reloads(e.mask)]]
      BY <1>1, <2>2
    <3>. QED  BY <1>3, <1>4, <2>2, <3>1, ZenonT(60) DEF Goroutines, Places
  <2>3. CASE isPathEvent /\ ~AddsWatch(e.mask)
    <3>1. loader' = [loader EXCEPT !["watcher"] = [@ EXCEPT !.pc = "read"]]
      BY <1>1, <2>3
    <3>. QED  BY <1>3, <2>3, <3>1, ZenonT(60) DEF Goroutines, Places
  <2>. QED  BY <2>1, <2>2, <2>3, Zenon
<1>6. /\ loader'["watcher"].pc \in {"off", "wait", "add", "read", "store"}
      /\ On /\ On' /\ (\A p : At("start", p)' <=> At("start", p))
      /\ At("watcher", "add")' =>
           isPathEvent /\ AddsWatch(e.mask) /\ loader'["watcher"].reload = Reloads(e.mask)
      /\ ~At("watcher", "add")
  <2>1. loader["watcher"].pc = "wait"
    BY <1>1, Zenon DEF At
  <2>. QED  BY <1>5, <2>1 DEF On, At
<1>7. Shape'
  <2>1. \A x \in Loaders : loader'[x].got \in Versions \cup {Nil}
    BY <1>5 DEF Goroutines
  <2>2. \A f \in Elements(queue') : f.wd \in 1 .. lastWD
    BY <1>0, <1>2, EventType, Zenon
  <2>3. \A i \in DOMAIN queue' : queue'[i].wd \in 1 .. lastWD
    BY <2>2, Zenon DEF Elements
  <2>4. fileWD' \in 0 .. lastWD /\ (fileWD' # NoWD => fileWD' = fileWD)
    <3>1. NoWD \in 0 .. lastWD
      <4>1. lastWD \in Nat
        BY <1>0, Zenon DEF Shape
      <4>. QED  BY <4>1 DEF NoWD
    <3>. QED  BY <1>0, <1>1, <3>1, Zenon DEF Shape, TypeOK
  <2>5. TypeOK'
    BY <1>0, <1>1, <2>1, <2>3, <2>4, Zenon DEF Shape, TypeOK
  <2>. QED  BY <1>0, <1>1, <1>2, <1>5, <1>6, <2>5, Zenon DEF Shape
<1>8. WatchInv'
  <2>1. watch'[node'] # NoWD => fileWD' = watch'[node']
    BY <1>0, <1>1, <1>2, Zenon DEF WatchInv
  <2>2. \A f \in Elements(queue') : f.mask \in Lost => f.wd # watch'[node']
    BY <1>0, <1>1, <1>2, Zenon DEF WatchInv
  <2>. QED  BY <1>0, <1>1, <1>5, <1>6, <2>1, <2>2, Zenon DEF WatchInv
<1>9. fileWD' # fileWD => isPathEvent /\ AddsWatch(e.mask) /\ Reloads(e.mask)
  BY <1>1, MaskFacts, Zenon DEF isPathEvent
<1>10. \A f : fileWD' = fileWD => (Told(f)' <=> Told(f))
  BY Zenon DEF Told
<1>11. Told(e) => isPathEvent /\ Reloads(e.mask)
  BY Zenon DEF Told, isPathEvent
<1>12. NoticeInv'
  <2>1. unheard' \/ \A f \in Elements(queue') : f.mask # "CREATE"
    BY <1>0, <1>1, <1>2, Zenon DEF NoticeInv
  <2>2. AddsWatch(e.mask) /\ ~Reloads(e.mask) => unheard'
    <3>1. AddsWatch(e.mask) /\ ~Reloads(e.mask) => e.mask = "CREATE"
      BY Zenon DEF AddsWatch, Reloads
    <3>. QED  BY <1>0, <1>1, <1>2, <3>1, Zenon DEF NoticeInv
  <2>3. ASSUME Unwatched' PROVE WillWatch'
    <3>1. Unwatched
      BY <1>1, <2>3, Zenon DEF Unwatched
    <3>2. PICK f \in Elements(queue) : Told(f) /\ AddsWatch(f.mask)
      BY <1>0, <1>6, <3>1, Zenon DEF NoticeInv, WillWatch
    <3>3. CASE isPathEvent /\ AddsWatch(e.mask) /\ Reloads(e.mask)
      BY <1>5, <3>3, Zenon DEF WillWatch, At
    <3>4. CASE ~(isPathEvent /\ AddsWatch(e.mask) /\ Reloads(e.mask))
      <4>1. f \in Elements(queue') /\ Told(f)'
        BY <1>2, <1>9, <1>10, <1>11, <3>2, <3>4, Zenon
      <4>. QED  BY <3>2, <4>1, Zenon DEF WillWatch
    <3>. QED  BY <3>3, <3>4
  <2>. QED  BY <1>6, <2>1, <2>2, <2>3, Zenon DEF NoticeInv
<1>13. CurrentInv'
  <2>1. CASE isPathEvent
    BY <1>5, <2>1, Zenon DEF CurrentInv, Reading, At
  <2>2. CASE ~isPathEvent
    <3>1. loader' = loader /\ fileWD' = fileWD
      BY <1>5, <1>9, <2>2, Zenon
    <3>2. (\E f \in Elements(queue) : Told(f)) => \E f \in Elements(queue') : Told(f)'
      BY <1>2, <1>10, <1>11, <2>2, <3>1, Zenon
    <3>. QED  BY <1>0, <1>1, <3>1, <3>2, Zenon DEF CurrentInv, Reading, At, On
  <2>. QED  BY <2>1, <2>2
<1>. QED  BY <1>7, <1>8, <1>12, <1>13, Zenon DEF IInv

---------------------------------------------------------------------------
(* The invariant holds before the file is first read ...                   *)
LEMMA InitInv ==
  ASSUME Init
  PROVE  IInv
<1>1. /\ node \in {0, 1} /\ link \in BOOLEAN
      /\ text = [n \in Nodes |-> IF n = 1 THEN 1 ELSE 0]
      /\ writing = FALSE /\ changes = 0
      /\ dir = FALSE /\ lastWD = NoWD /\ queue = <<>>
      /\ watch = [n \in Nodes |-> NoWD]
      /\ config = Nil /\ fileWD = NoWD
      /\ loader = [x \in Loaders |->
           [pc |-> IF x = "start" THEN "read" ELSE IF x = "watcher" THEN "off" ELSE "idle",
            got |-> Nil, reload |-> FALSE]]
      /\ blind = {} /\ unheard = FALSE
  BY Zenon DEF Init
<1>2. Elements(queue) = {} /\ queue \in Seq(Events) /\ DOMAIN queue = {}
  <2>1. Elements(<<>>) = {}
    BY ElementsOf
  <2>. QED  BY <1>1, <2>1
<1>3. "start" \in Loaders /\ "watcher" \in Loaders /\ "start" # "watcher"
  BY DEF Loaders
<1>4. /\ loader \in [Loaders -> Goroutines]
      /\ loader["start"].pc = "read" /\ loader["watcher"].pc = "off"
  BY <1>1, <1>3 DEF Goroutines, Places
<1>5. /\ node \in Nodes /\ text \in [Nodes -> Versions] /\ changes \in 0 .. MaxChanges
      /\ node <= changes + 1
  BY <1>1, ResolvConfAssumption DEF Nodes, Versions
<1>6. /\ lastWD \in Nat /\ watch \in [Nodes -> 0 .. lastWD] /\ fileWD \in 0 .. lastWD
      /\ \A n \in Nodes : watch[n] = NoWD /\ watch[n] # DirWD
  BY <1>1 DEF NoWD, DirWD
<1>7. Shape
  <2>1. \A x \in Loaders : loader[x].got \in Versions \cup {Nil}
    BY <1>4 DEF Goroutines
  <2>2. TypeOK
    BY <1>1, <1>2, <1>5, <1>6, <2>1, Zenon DEF TypeOK
  <2>. QED  BY <1>2, <1>4, <1>6, <2>2, Zenon DEF Shape
<1>8. ~On /\ At("start", "read") /\ ~At("start", "watch file") /\ ~At("watcher", "add")
  BY <1>4 DEF On, At
<1>9. WatchInv
  BY <1>1, <1>2, <1>5, <1>6, <1>8, Zenon DEF WatchInv
<1>10. NoticeInv
  BY <1>2, <1>8, Zenon DEF NoticeInv
<1>11. CurrentInv
  BY <1>8, Zenon DEF CurrentInv, Reading
<1>. QED  BY <1>7, <1>9, <1>10, <1>11, Zenon DEF IInv

(* ... and every step keeps it.                                            *)
LEMMA StepInv ==
  ASSUME IInv, [Next]_vars
  PROVE  IInv'
<1>1. CASE Changes
  BY <1>1, TruncateInv, CloseWriteInv, ReplaceInv, RemovePathInv, CreateInv, ChangeTargetInv,
     Zenon DEF Changes
<1>2. CASE AddDirWatch
  BY <1>2, AddDirWatchInv, Zenon
<1>3. CASE StartWatcher
  BY <1>3, StartWatcherInv, Zenon
<1>4. CASE Watcher
  <2>1. "watcher" \in Loaders
    BY DEF Loaders
  <2>. QED  BY <1>4, <2>1, HandleEventInv, WatchAgainInv, ReadFileInv, StoreConfigInv,
               Zenon DEF Watcher
<1>5. CASE \E x \in Loaders \ {"watcher"} : ReadFile(x) \/ StoreConfig(x) \/ Get(x)
  BY <1>5, ReadFileInv, StoreConfigInv, GetInv, Zenon
<1>6. CASE UNCHANGED vars
  <2>1. /\ node' = node /\ text' = text /\ writing' = writing /\ link' = link /\ changes' = changes
        /\ dir' = dir /\ watch' = watch /\ lastWD' = lastWD /\ queue' = queue /\ config' = config
        /\ fileWD' = fileWD /\ loader' = loader /\ blind' = blind /\ unheard' = unheard
    BY <1>6, Zenon DEF vars, file, kernel, ghosts
  <2>2. Shape' /\ WatchInv'
    BY <2>1, ZenonT(60) DEF IInv, Shape, TypeOK, WatchInv, On, At
  <2>3. NoticeInv' /\ CurrentInv'
    BY <2>1, Zenon DEF IInv, NoticeInv, CurrentInv, Unwatched, WillWatch, Told, Reading, On, At
  <2>. QED  BY <2>2, <2>3, Zenon DEF IInv
<1>. QED  BY <1>1, <1>2, <1>3, <1>4, <1>5, <1>6, Zenon DEF Next

(* The news of the last change is never lost between the kernel, handleEvent *)
(* and load.                                                               *)
THEOREM Inductive == Spec => []IInv
BY InitInv, StepInv, PTL DEF Spec

(* The watch descriptors and texts of ResolvConf are of their kinds: fileWD *)
(* is never the descriptor of the directory.                               *)
THEOREM TypeCorrect == Spec => []TypeOK
<1>1. IInv => TypeOK
  BY Zenon DEF IInv, Shape
<1>. QED  BY <1>1, Inductive, PTL

(* When handleEvent has seen all events, rc.config is the text of the file, *)
(* unless inotify could not tell of a change.                              *)
THEOREM SettledAlwaysCurrent == Spec => []SettledIsCurrent
<1>1. IInv => SettledIsCurrent
  <2>. SUFFICES ASSUME IInv, At("watcher", "wait"), queue = <<>>, node # 0, ~writing, ~unheard
                PROVE  config = text[node]
    BY Zenon DEF SettledIsCurrent, Settled
  <2>1. On /\ ~Reading("watcher") /\ ~At("watcher", "add")
    BY DEF On, At, Reading
  <2>2. At("start", "done")
    BY <2>1, Zenon DEF IInv, WatchInv
  <2>3. ~Reading("start")
    BY <2>2 DEF At, Reading
  <2>4. Elements(queue) = {}
    BY ElementsOf
  <2>. QED  BY <2>1, <2>3, <2>4, Zenon DEF IInv, CurrentInv
<1>. QED  BY <1>1, Inductive, PTL

=============================================================================
