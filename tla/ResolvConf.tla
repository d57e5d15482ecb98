------------------------------ MODULE ResolvConf ------------------------------
(***************************************************************************)
(* The resolver configuration (ResolvConf in config.go): /etc/resolv.conf  *)
(* is read once and again whenever inotify tells of a change, while it is  *)
(* rewritten, replaced, removed, or is a symbolic link to a file elsewhere *)
(* that is.  The kernel's part is modelled as far as the masks of the two  *)
(* watches reach: what each change does to the path, and which events it   *)
(* puts into the queue.  Of the text only which version it is matters.     *)
(***************************************************************************)
EXTENDS Integers, Sequences

CONSTANTS
  Getters,                      \* goroutines in GetResolverAddress
  MaxChanges                    \* bound on the changes to the file

ASSUME ResolvConfAssumption == MaxChanges \in Nat

Loaders == {"start", "watcher"} \cup Getters
Nodes == 0 .. MaxChanges + 1    \* files, by the change that brought them; 0 for none
Versions == 0 .. MaxChanges + 1 \* texts, likewise; 0 for the empty text
Nil == -1                       \* rc.config before a file was read
NoWD == 0
DirWD == 1                      \* the watch descriptor of the directory

VARIABLES
  link,                         \* the path is a symbolic link
  node,                         \* the file the path leads to
  text,                         \* per file: the version it holds
  writing,                      \* somebody has truncated the file and is writing it
  changes,                      \* number of changes so far
  dir,                          \* kernel: the directory is watched
  watch,                        \* kernel: the watch descriptor of a file
  lastWD,                       \* kernel: the last watch descriptor given out
  queue,                        \* kernel: the events not read yet
  config,                       \* rc.config
  fileWD,                       \* watcher.fileWD
  loader,                       \* per goroutine: where it is, and the text it has read
  blind,                        \* ghost: files that came up without notice
  unheard                       \* ghost: a change without notice, since the watcher last read the file

file == <<link, node, text, writing, changes>>
kernel == <<dir, watch, lastWD, queue>>
ghosts == <<blind, unheard>>
vars == <<file, kernel, config, fileWD, loader, ghosts>>

---------------------------------------------------------------------------
(* Changes to the file and the events they cause, given the watches there  *)
(* are.  An event of the directory is one for the name of the path.        *)

Event(wd, mask) == [wd |-> wd, mask |-> mask]
DirEvent(mask) == IF dir THEN <<Event(DirWD, mask)>> ELSE <<>>
FileEvent(mask) == IF watch[node] = NoWD THEN <<>> ELSE <<Event(watch[node], mask)>>

(* The file is gone, and the watch with it.                                *)
Deleted == FileEvent("DELETE_SELF") \o FileEvent("IGNORED")

(* Of some changes the two watches cannot tell: those before they are set  *)
(* up, and a file elsewhere coming up where a link was dangling, or where  *)
(* one is created, and what happens to that file later.  Nothing, or only  *)
(* the creation of the link, is in the queue then.                         *)
NoNotice(events) ==
  /\ \A i \in DOMAIN events : events[i].mask = "CREATE"
  /\ node = 0 \/ node \in blind \/ loader["watcher"].pc = "off"

Fresh == changes + 2            \* the file, and the text, a change brings

Change(events, gone) ==
  /\ changes < MaxChanges /\ changes' = changes + 1
  /\ queue' = queue \o events
  /\ watch' = IF gone THEN [watch EXCEPT ![node] = NoWD] ELSE watch
  /\ unheard' = (unheard \/ NoNotice(events))
  /\ blind' = IF NoNotice(events) THEN blind \cup {Fresh} ELSE blind
  /\ UNCHANGED <<dir, lastWD, config, fileWD, loader>>

Leads(n, t) ==
  /\ node' = n
  /\ text' = IF n = 0 THEN text ELSE [text EXCEPT ![n] = t]

(* The file is rewritten in place.                                         *)
Truncate ==
  /\ node # 0 /\ ~writing /\ changes < MaxChanges
  /\ Leads(node, 0) /\ writing' = TRUE
  /\ UNCHANGED <<link, changes, kernel, config, fileWD, loader, ghosts>>

CloseWrite ==
  /\ writing
  /\ Change((IF link THEN <<>> ELSE DirEvent("CLOSE_WRITE")) \o FileEvent("CLOSE_WRITE"), FALSE)
  /\ Leads(node, Fresh) /\ writing' = FALSE
  /\ UNCHANGED link

(* A file, or a link to one, is renamed to the path.                       *)
Replace ==
  /\ ~writing
  /\ Change(DirEvent("MOVED_TO") \o (IF link \/ node = 0 THEN <<>> ELSE Deleted), ~link)
  /\ link' \in BOOLEAN /\ Leads(Fresh, Fresh)
  /\ UNCHANGED writing

(* The path, a file or a link, is removed or renamed to something else.    *)
RemovePath ==
  /\ (node # 0 \/ link) /\ ~writing
  /\ \/ Change(IF link THEN <<>> ELSE Deleted, ~link)
     \/ Change(IF link THEN <<>> ELSE FileEvent("MOVE_SELF"), FALSE)
  /\ link' = FALSE /\ Leads(0, 0)
  /\ UNCHANGED writing

CreateFile ==
  /\ node = 0 /\ ~link
  /\ changes + 1 < MaxChanges
  /\ Change(DirEvent("CREATE"), FALSE)
  /\ Leads(Fresh, 0) /\ writing' = TRUE
  /\ UNCHANGED link

CreateLink ==
  /\ node = 0 /\ ~link
  /\ Change(DirEvent("CREATE"), FALSE)
  /\ link' = TRUE /\ Leads(Fresh, Fresh)
  /\ UNCHANGED writing

(* The file the link leads to is replaced, removed, or comes up.           *)
ChangeTarget ==
  /\ link /\ ~writing
  /\ Change(IF node = 0 THEN <<>> ELSE Deleted, TRUE)
  /\ Leads(Fresh, Fresh) \/ (node # 0 /\ Leads(0, 0))
  /\ UNCHANGED <<link, writing>>

---------------------------------------------------------------------------
(* rc.load: the file is read, and only then the lock taken and the         *)
(* configuration stored; without a file the old one stays.                 *)

(* A link whose creation is still in the queue may yet be watched without  *)
(* being read.                                                             *)
CreatesHandled == \A i \in DOMAIN queue : queue[i].mask # "CREATE"

At(x, pc) == loader[x].pc = pc
Go(x, pc) == loader' = [loader EXCEPT ![x].pc = pc]

ReadFile(x) ==
  /\ At(x, "read")
  /\ loader' = [loader EXCEPT ![x].pc = "store",
                              ![x].got = IF node = 0 THEN Nil ELSE text[node]]
  /\ unheard' = (unheard /\ ~(x = "watcher" /\ CreatesHandled))
  /\ UNCHANGED <<file, kernel, config, fileWD, blind>>

AfterLoad(x) ==
  IF x = "start" THEN "watch dir" ELSE IF x = "watcher" THEN "wait" ELSE "idle"

StoreConfig(x) ==
  /\ At(x, "store")
  /\ config' = IF loader[x].got = Nil THEN config ELSE loader[x].got
  /\ loader' = [loader EXCEPT ![x] = [@ EXCEPT !.pc = AfterLoad(x), !.got = Nil]]
  /\ unheard' = (unheard \/ (x \in Getters /\ node # 0 /\ config' # text[node]))
  /\ UNCHANGED <<file, kernel, fileWD, blind>>

(* Get reads the file itself as long as nobody could.                      *)
Get(x) ==
  /\ x \in Getters /\ At(x, "idle")
  /\ At("start", "done") /\ config = Nil
  /\ Go(x, "read")
  /\ UNCHANGED <<file, kernel, config, fileWD, ghosts>>

---------------------------------------------------------------------------
(* startWatch, and the watcher's goroutine.                                *)

AddDirWatchAnyway ==            \* mutant: goes on without inotify
  /\ At("start", "watch dir")
  /\ \/ dir' = TRUE /\ lastWD' = DirWD
     \/ UNCHANGED <<dir, lastWD>>
  /\ Go("start", "watch file")
  /\ UNCHANGED <<file, watch, queue, config, fileWD, ghosts>>

AddDirWatch ==
  /\ At("start", "watch dir")
  /\ \/ dir' = TRUE /\ lastWD' = DirWD /\ Go("start", "watch file")
     \/ UNCHANGED <<dir, lastWD>> /\ Go("start", "done")       \* inotify is not to be had
  /\ UNCHANGED <<file, watch, queue, config, fileWD, ghosts>>

(* A file that is watched already keeps its watch descriptor.              *)
AddFileWatch ==
  IF node = 0 THEN UNCHANGED <<watch, lastWD, fileWD>>
  ELSE /\ fileWD' = IF watch[node] = NoWD THEN lastWD + 1 ELSE watch[node]
       /\ lastWD' = IF watch[node] = NoWD THEN lastWD + 1 ELSE lastWD
       /\ watch' = [watch EXCEPT ![node] = fileWD']

StartWatcher ==
  /\ At("start", "watch file")
  /\ AddFileWatch
  /\ loader' = [loader EXCEPT !["start"].pc = "done", !["watcher"].pc = "wait"]
  /\ UNCHANGED <<file, dir, queue, config, ghosts>>

Lost == {"IGNORED", "DELETE_SELF", "MOVE_SELF"}

AddsWatch(mask) == mask \in Lost \cup {"CREATE", "MOVED_TO"}

ReloadsUnlessMoved(mask) == mask \in Lost \cup {"CLOSE_WRITE"}        \* mutant

Reloads(mask) == mask \in Lost \cup {"CLOSE_WRITE", "MOVED_TO"}

HandleEvent ==
  /\ At("watcher", "wait") /\ queue # <<>>
  /\ LET e == Head(queue)
         isFileEvent == e.wd = fileWD
         isPathEvent == isFileEvent \/ e.wd = DirWD
     IN  /\ fileWD' = IF isFileEvent /\ e.mask \in Lost THEN NoWD ELSE fileWD
         /\ loader' = [loader EXCEPT !["watcher"] =
              IF ~isPathEvent THEN @
              ELSE IF AddsWatch(e.mask) THEN [@ EXCEPT !.pc = "add", !.reload = Reloads(e.mask)]
              ELSE [@ EXCEPT !.pc = "read"]]
  /\ queue' = Tail(queue)
  /\ UNCHANGED <<file, dir, watch, lastWD, config, ghosts>>

ReloadOnly ==                   \* mutant: a new file is read and not watched
  /\ At("watcher", "add")
  /\ loader' = [loader EXCEPT !["watcher"].pc = IF loader["watcher"].reload THEN "read" ELSE "wait",
                              !["watcher"].reload = FALSE]
  /\ UNCHANGED <<file, kernel, config, fileWD, ghosts>>

WatchAgain ==
  /\ At("watcher", "add")
  /\ AddFileWatch
  /\ loader' = [loader EXCEPT !["watcher"].pc = IF loader["watcher"].reload THEN "read" ELSE "wait",
                              !["watcher"].reload = FALSE]
  /\ UNCHANGED <<file, dir, queue, config, ghosts>>

---------------------------------------------------------------------------
Init ==
  /\ node \in {0, 1} /\ link \in BOOLEAN
  /\ text = [n \in Nodes |-> IF n = 1 THEN 1 ELSE 0]
  /\ writing = FALSE /\ changes = 0
  /\ dir = FALSE /\ lastWD = NoWD /\ queue = <<>>
  /\ watch = [n \in Nodes |-> NoWD]
  /\ config = Nil /\ fileWD = NoWD
  /\ loader = [x \in Loaders |->
       [pc |-> IF x = "start" THEN "read" ELSE IF x = "watcher" THEN "off" ELSE "idle",
        got |-> Nil, reload |-> FALSE]]
  /\ blind = {} /\ unheard = FALSE

Changes ==
  Truncate \/ CloseWrite \/ Replace \/ RemovePath \/ CreateFile \/ CreateLink \/ ChangeTarget

Watcher ==
  HandleEvent \/ WatchAgain \/ ReadFile("watcher") \/ StoreConfig("watcher")

Next ==
  \/ Changes
  \/ AddDirWatch \/ StartWatcher \/ Watcher
  \/ \E x \in Loaders \ {"watcher"} : ReadFile(x) \/ StoreConfig(x) \/ Get(x)

Spec == Init /\ [][Next]_vars

(* The goroutines run, and a program that truncates the file closes it.    *)
FairSpec ==
  /\ Spec
  /\ WF_vars(AddDirWatch \/ StartWatcher \/ ReadFile("start") \/ StoreConfig("start"))
  /\ WF_vars(Watcher) /\ WF_vars(CloseWrite)

---------------------------------------------------------------------------
(* The watch descriptor the watcher goes by was given out by the kernel    *)
(* and is not the one of the directory, and what a goroutine has read is a *)
(* text the file has had.                                                  *)
TypeOK ==
  /\ link \in BOOLEAN /\ writing \in BOOLEAN /\ dir \in BOOLEAN /\ unheard \in BOOLEAN
  /\ node \in Nodes /\ blind \subseteq Nodes /\ changes \in 0 .. MaxChanges
  /\ text \in [Nodes -> Versions]
  /\ watch \in [Nodes -> 0 .. lastWD] /\ fileWD \in 0 .. lastWD
  /\ fileWD # NoWD => dir /\ fileWD # DirWD
  /\ \A i \in DOMAIN queue : queue[i].wd \in 1 .. lastWD
  /\ config \in Versions \cup {Nil}
  /\ \A x \in Loaders : loader[x].got \in Versions \cup {Nil}

(* handleEvent has seen everything the kernel had to tell.                 *)
Settled == At("watcher", "wait") /\ queue = <<>>

(* Once the watcher has caught up with the events, and unless there was a  *)
(* change inotify did not tell of, the configuration in use is the one in  *)
(* the file, whatever that was replaced by and however often while         *)
(* handleEvent was at work on an earlier event.                            *)
SettledIsCurrent ==
  Settled /\ node # 0 /\ ~writing /\ ~unheard
    => config = text[node]

(* The configuration does not stick to an old text: unless there is no     *)
(* file, inotify could not be had or did not tell of a change, in the end  *)
(* the resolver in use is the one the file names.                          *)
EventuallyCurrent ==
  <>[](node = 0 \/ unheard \/ ~dir \/ config = text[node])

=============================================================================
