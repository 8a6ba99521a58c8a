-------------------------- MODULE SessionDirectory --------------------------
(***************************************************************************)
(* The project directory a conversation keeps between turns of the Claude  *)
(* code peer (src/agent_runtime/claude_peer.py).  A turn sweeps expired    *)
(* directories, claims its conversation's own through a lock file or works *)
(* in a throwaway one, runs the CLI in a container that mounts the         *)
(* directory, sends the new files to the file store, remembers them in a   *)
(* manifest, and releases the claim.                                       *)
(*                                                                         *)
(* A file's content is the number of the edit that made it.  Time is two   *)
(* facts: a lock is older than a run can be, a directory is older than the *)
(* retention.                                                              *)
(***************************************************************************)
EXTENDS Naturals, FiniteSets

CONSTANTS
    Turns,        \* calls of run_claude, each in a thread of its own
    Convs,        \* conversations, hence directories
    Files,        \* names a run may write or a user may attach
    NoOne,        \* no lock
    MaxEdits,     \* bound: writes of files, by runs and by uploads
    Mishaps,      \* bound: which of Kinds may happen
    MaxMishaps    \* bound: how many of them

(* What the peer and the CLI keep in a directory under names with a dot,    *)
(* which are never sent: .agent_lock, .agent_artifacts.json, .claude.      *)
Hidden == {"lock", "manifest", "history"}

(* A process dies, a kill fails, a turn outlives its lock's age, a directory *)
(* the retention.                                                          *)
Kinds == {"crash", "outlive", "overrun", "expiry"}

ASSUME DirectoryConstants ==
    /\ NoOne \notin Turns /\ IsFiniteSet(Files) /\ Files \cap Hidden = {}
    /\ MaxEdits \in Nat /\ Mishaps \subseteq Kinds /\ MaxMishaps \in Nat

VARIABLES
    conv,       \* conv[t]: whose turn it is
    pc,         \* pc[t]: where the turn stands
    todo,       \* todo[t]: directories the sweep has still to look at
    doomed,     \* doomed[t]: the one it found expired
    listed,     \* listed[t]: what the removal of that one has still to unlink
    exists,     \* exists[c]: there is a directory at this path
    expired,    \* expired[c]: nobody touched it inside the retention
    history,    \* history[c]: the CLI has session history in it
    content,    \* content[c][f]: which edit the file holds, 0: no such file
    manifest,   \* manifest[c][f]: which edit was recorded as delivered
    lock,       \* lock[c]: who made the lock file
    stale,      \* stale[c]: the lock is older than any run can be
    mounted,    \* mounted[t]: the directory the turn claimed is still the one at its path
    box,        \* box[t]: the turn's container runs
    resumed,    \* resumed[t]: it was started with --continue
    staged,     \* staged[t]: files the turn was attached
    delivered,  \* delivered[t]: files this turn sent to the store
    edits,      \* edits made so far
    sent,       \* history: which edits of which files reached the store
    raced,      \* history: directories a live claim was taken away from
    lapsed,     \* history: directories where something sent is not recorded
    stray,      \* history: directories a container wrote to, its turn gone on or dead
    mishaps     \* of those so far

disk == <<exists, expired, history, content, manifest, lock, stale>>
run == <<mounted, box, resumed, staged, delivered>>
past == <<edits, sent, raced, lapsed, stray, mishaps>>
sweep == <<todo, doomed, listed>>
vars == <<conv, pc, sweep, disk, run, past>>

Nothing == [f \in Files |-> 0]

(* Where a turn stands: on its way to a claim, working under one, over. *)
Claiming == {"sweeping", "condemned", "removing", "making", "looking", "dating", "breaking", "creating"}
Working == {"claimed", "started", "ended", "delivered", "leaving"}
Over == {"done", "apart", "dead"}
Places == {"idle"} \cup Claiming \cup Working \cup Over

Present(c) == {f \in Files : content[c][f] # 0}
AlreadyPersisted(c) == {f \in Present(c) : manifest[c][f] = content[c][f]}

Entries(c) ==
    Present(c) \cup (IF lock[c] # NoOne THEN {"lock"} ELSE {})
               \cup (IF manifest[c] # Nothing THEN {"manifest"} ELSE {})
               \cup (IF history[c] THEN {"history"} ELSE {})

(* Does some turn other than t work under the lock this path names? *)
TakenFrom(t, c) == lock[c] \in Turns \ {t} /\ pc[lock[c]] \in Working

Typed ==
    /\ conv \in [Turns -> Convs] /\ pc \in [Turns -> Places]
    /\ todo \in [Turns -> SUBSET Convs] /\ doomed \in [Turns -> SUBSET Convs]
    /\ listed \in [Turns -> SUBSET (Files \cup Hidden)]
    /\ exists \in [Convs -> BOOLEAN] /\ expired \in [Convs -> BOOLEAN]
    /\ history \in [Convs -> BOOLEAN] /\ stale \in [Convs -> BOOLEAN]
    /\ content \in [Convs -> [Files -> Nat]] /\ manifest \in [Convs -> [Files -> Nat]]
    /\ lock \in [Convs -> Turns \cup {NoOne}]
    /\ mounted \in [Turns -> BOOLEAN] /\ box \in [Turns -> BOOLEAN]
    /\ resumed \in [Turns -> BOOLEAN]
    /\ staged \in [Turns -> SUBSET Files] /\ delivered \in [Turns -> SUBSET Files]
    /\ edits \in Nat /\ sent \in SUBSET (Files \X Nat)
    /\ raced \in SUBSET Convs /\ lapsed \in SUBSET Convs /\ stray \in SUBSET Convs
    /\ mishaps \in Nat

(* A lock is held by a turn of its conversation that works, or has died. *)
LockOwned ==
    \A c \in Convs : lock[c] # NoOne =>
        conv[lock[c]] = c /\ pc[lock[c]] \in Working \cup {"dead"}

TypeOK == Typed /\ LockOwned

Init ==
    /\ conv \in [Turns -> Convs]
    /\ pc = [t \in Turns |-> "idle"]
    /\ todo = [t \in Turns |-> {}] /\ doomed = [t \in Turns |-> {}]
    /\ listed = [t \in Turns |-> {}]
    /\ exists = [c \in Convs |-> FALSE] /\ expired = [c \in Convs |-> FALSE]
    /\ history = [c \in Convs |-> FALSE] /\ stale = [c \in Convs |-> FALSE]
    /\ content = [c \in Convs |-> Nothing] /\ manifest = [c \in Convs |-> Nothing]
    /\ lock = [c \in Convs |-> NoOne]
    /\ mounted = [t \in Turns |-> FALSE] /\ box = [t \in Turns |-> FALSE]
    /\ resumed = [t \in Turns |-> FALSE]
    /\ staged = [t \in Turns |-> {}] /\ delivered = [t \in Turns |-> {}]
    /\ edits = 0 /\ sent = {} /\ raced = {} /\ lapsed = {} /\ stray = {} /\ mishaps = 0

Happens(kind) ==
    kind \in Mishaps /\ mishaps < MaxMishaps /\ mishaps' = mishaps + 1

Goes(t, here, there) == pc[t] = here /\ pc' = [pc EXCEPT ![t] = there]

-----------------------------------------------------------------------------
(* The sweep: every directory there is is looked at, and emptied name by   *)
(* name and removed if it was expired when it was looked at.               *)

BeginSweep(t) ==
    /\ Goes(t, "idle", "sweeping")
    /\ todo' = [todo EXCEPT ![t] = {c \in Convs : exists[c]}]
    /\ UNCHANGED <<conv, doomed, listed, disk, run, past>>

SweepLooks(t) ==
    \E c \in todo[t] :
       /\ todo' = [todo EXCEPT ![t] = @ \ {c}]
       /\ \/ /\ exists[c] /\ expired[c]
             /\ Goes(t, "sweeping", "condemned")
             /\ doomed' = [doomed EXCEPT ![t] = {c}]
          \/ /\ ~(exists[c] /\ expired[c])
             /\ pc[t] = "sweeping"
             /\ UNCHANGED <<pc, doomed>>
       /\ UNCHANGED <<conv, listed, disk, run, past>>

(* rmtree opens the directory and lists it ... *)
SweepLists(t) ==
    \E c \in doomed[t] :
       /\ Goes(t, "condemned", "removing")
       /\ listed' = [listed EXCEPT ![t] = Entries(c)]
       /\ UNCHANGED <<conv, todo, doomed, disk, run, past>>

(* ... unlinks what it listed, whoever made what has the name by now, and  *)
(* passes over what cannot be unlinked ...                                 *)
SweepUnlinks(t) ==
    \E c \in doomed[t], e \in listed[t] :
       /\ pc[t] = "removing"
       /\ listed' = [listed EXCEPT ![t] = @ \ {e}]
       /\ \/ /\ content' = [content EXCEPT ![c] = [f \in Files |-> IF f = e THEN 0 ELSE @[f]]]
             /\ history' = [history EXCEPT ![c] = @ /\ e # "history"]
             /\ manifest' = [manifest EXCEPT ![c] = IF e = "manifest" THEN Nothing ELSE @]
             /\ lapsed' = IF e = "manifest" THEN lapsed \cup {c} ELSE lapsed
             /\ lock' = [lock EXCEPT ![c] = IF e = "lock" THEN NoOne ELSE @]
             /\ stale' = [stale EXCEPT ![c] = @ /\ e # "lock"]
             /\ raced' = IF e = "lock" /\ TakenFrom(t, c) THEN raced \cup {c} ELSE raced
             /\ expired' = [expired EXCEPT ![c] = FALSE]
          \/ UNCHANGED <<content, history, manifest, lapsed, lock, stale, raced, expired>>
       /\ UNCHANGED <<conv, pc, todo, doomed, exists, run, edits, sent, stray,
                      mishaps>>

(* ... and removes the directory, unless there is something in it.  What   *)
(* another sweep had listed there it will not find in a new one.           *)
SweepRemoves(t) ==
    \E c \in doomed[t] :
       /\ listed[t] = {}
       /\ Goes(t, "removing", "sweeping")
       /\ doomed' = [doomed EXCEPT ![t] = {}]
       /\ \/ /\ Entries(c) = {}
             /\ exists' = [exists EXCEPT ![c] = FALSE]
             /\ expired' = [expired EXCEPT ![c] = FALSE]
             /\ listed' = [u \in Turns |-> IF doomed[u] = {c} THEN {} ELSE listed[u]]
             /\ mounted' = [u \in Turns |-> mounted[u] /\ conv[u] # c]
             /\ lapsed' = lapsed \ {c}
          \/ /\ Entries(c) # {}
             /\ UNCHANGED <<exists, expired, listed, mounted, lapsed>>
       /\ UNCHANGED <<conv, todo, history, content, manifest, lock, stale,
                      box, resumed, staged, delivered,
                      edits, sent, raced, stray, mishaps>>

EndSweep(t) ==
    /\ todo[t] = {}
    /\ Goes(t, "sweeping", "making")
    /\ UNCHANGED <<conv, sweep, disk, run, past>>

-----------------------------------------------------------------------------
(* The claim.                                                              *)

(* mkdir(exist_ok): a new directory is empty, an old one stays as it is. *)
MakeDir(t) ==
    LET c == conv[t] IN
    /\ Goes(t, "making", "looking")
    /\ exists' = [exists EXCEPT ![c] = TRUE]
    /\ UNCHANGED <<conv, sweep, expired, history, content, manifest, lock, stale, run, past>>

(* A directory that cannot be made: a throwaway one. *)
MakeDirFails(t) ==
    /\ Goes(t, "making", "apart")
    /\ UNCHANGED <<conv, sweep, disk, run, past>>

(* lock.exists() *)
LookForLock(t) ==
    /\ \/ lock[conv[t]] # NoOne /\ Goes(t, "looking", "dating")
       \/ lock[conv[t]] = NoOne /\ Goes(t, "looking", "creating")
    /\ UNCHANGED <<conv, sweep, disk, run, past>>

(* lock.stat(): a lock released in between cannot be read, and the turn gives up. *)
DateLock(t) ==
    LET c == conv[t] IN
    /\ \/ lock[c] = NoOne /\ Goes(t, "dating", "apart")
       \/ lock[c] # NoOne /\ stale[c] /\ Goes(t, "dating", "breaking")
       \/ lock[c] # NoOne /\ ~stale[c] /\ Goes(t, "dating", "creating")
    /\ UNCHANGED <<conv, sweep, disk, run, past>>

(* unlink(missing_ok) removes the lock by name, whoever's it is by now. *)
BreakLock(t) ==
    LET c == conv[t] IN
    /\ Goes(t, "breaking", "creating")
    /\ lock' = [lock EXCEPT ![c] = NoOne]
    /\ stale' = [stale EXCEPT ![c] = FALSE]
    /\ expired' = [expired EXCEPT ![c] = @ /\ lock[c] = NoOne]
    /\ raced' = IF TakenFrom(t, c) THEN raced \cup {c} ELSE raced
    /\ UNCHANGED <<conv, sweep, exists, history, content, manifest, run,
                   edits, sent, lapsed, stray, mishaps>>

(* Faulty: opened without O_EXCL. *)
CreateLockShared(t) ==
    LET c == conv[t] IN
    /\ exists[c]
    /\ Goes(t, "creating", "claimed")
    /\ lock' = [lock EXCEPT ![c] = t]
    /\ stale' = [stale EXCEPT ![c] = FALSE]
    /\ expired' = [expired EXCEPT ![c] = FALSE]
    /\ mounted' = [mounted EXCEPT ![t] = TRUE]
    /\ UNCHANGED <<conv, sweep, exists, history, content, manifest,
                   box, resumed, staged, delivered, past>>

(* open(O_CREAT | O_EXCL) *)
CreateLock(t) ==
    LET c == conv[t] IN
    /\ exists[c] /\ lock[c] = NoOne
    /\ Goes(t, "creating", "claimed")
    /\ lock' = [lock EXCEPT ![c] = t]
    /\ stale' = [stale EXCEPT ![c] = FALSE]
    /\ expired' = [expired EXCEPT ![c] = FALSE]
    /\ mounted' = [mounted EXCEPT ![t] = TRUE]
    /\ UNCHANGED <<conv, sweep, exists, history, content, manifest,
                   box, resumed, staged, delivered, past>>

(* The lock exists, or its directory is gone: busy, a throwaway directory. *)
GivesUp(t) ==
    /\ ~exists[conv[t]] \/ lock[conv[t]] # NoOne
    /\ Goes(t, "creating", "apart")
    /\ UNCHANGED <<conv, sweep, disk, run, past>>

-----------------------------------------------------------------------------
(* The run.                                                                *)

(* Looks for session history, copies what the turn was attached, starts the CLI. *)
Start(t) ==
    LET c == conv[t] IN
    \E S \in SUBSET Files :
       /\ Goes(t, "claimed", "started")
       /\ edits + Cardinality(S) <= MaxEdits
       /\ resumed' = [resumed EXCEPT ![t] = history[c]]
       /\ staged' = [staged EXCEPT ![t] = IF exists[c] THEN S ELSE {}]
       /\ content' = [content EXCEPT ![c] =
             [f \in Files |-> IF f \in S /\ exists[c] THEN edits + 1 ELSE @[f]]]
       /\ edits' = edits + Cardinality(S)
       /\ box' = [box EXCEPT ![t] = TRUE]
       /\ UNCHANGED <<conv, sweep, exists, expired, history, manifest, lock, stale,
                      mounted, delivered, sent, raced, lapsed, stray, mishaps>>

(* Inside the container: session history, files.  What is written under a  *)
(* directory that was removed is lost.                                     *)
BoxWrites(t) ==
    LET c == conv[t] IN
    /\ box[t] /\ edits < MaxEdits
    /\ edits' = edits + 1
    /\ history' = [history EXCEPT ![c] = @ \/ mounted[t]]
    /\ \E f \in Files :
          content' = [content EXCEPT ![c][f] = IF mounted[t] THEN edits + 1 ELSE @]
    /\ UNCHANGED <<conv, pc, sweep, exists, expired, manifest, lock, stale, run,
                   sent, raced, lapsed, stray, mishaps>>

(* The CLI exits, or the time-out kills its container; or a container that *)
(* ran on ends.                                                            *)
BoxEnds(t) ==
    /\ box[t]
    /\ box' = [box EXCEPT ![t] = FALSE]
    /\ pc' = [pc EXCEPT ![t] = IF @ = "started" THEN "ended" ELSE @]
    /\ UNCHANGED <<conv, sweep, disk, mounted, resumed, staged, delivered, past>>

(* The kill fails, or waiting for the CLI does: the turn goes on and its    *)
(* container too.                                                          *)
BoxOutlives(t) ==
    /\ box[t]
    /\ Goes(t, "started", "ended")
    /\ Happens("outlive")
    /\ stray' = stray \cup {conv[t]}
    /\ UNCHANGED <<conv, sweep, disk, run, edits, sent, raced, lapsed>>

(* _persist_artifacts: everything but the attachments and what an earlier  *)
(* turn sent; the cap and failed uploads leave files out.                  *)
Deliver(t) ==
    LET c == conv[t] IN
    \E D \in SUBSET (Present(c) \ (staged[t] \cup AlreadyPersisted(c))) :
       /\ Goes(t, "ended", "delivered")
       /\ delivered' = [delivered EXCEPT ![t] = D]
       /\ sent' = sent \cup {<<f, content[c][f]>> : f \in D}
       /\ UNCHANGED <<conv, sweep, disk, mounted, box, resumed, staged,
                      edits, raced, lapsed, stray, mishaps>>

(* Faulty: everything on disk; only what this turn delivered. *)
RecordedWalked(t, c) == content[c]
RecordedAfresh(t, c) ==
    [f \in Files |-> IF f \in delivered[t] \cap Present(c) THEN content[c][f] ELSE 0]

(* record_persisted: what was delivered, now or before, as it is on disk now. *)
Recorded(t, c) ==
    [f \in Files |-> IF f \in (AlreadyPersisted(c) \cup delivered[t]) \cap Present(c)
                     THEN content[c][f] ELSE 0]

Record(t) ==
    LET c == conv[t] IN
    /\ Goes(t, "delivered", "leaving")
    /\ \/ /\ exists[c]
          /\ manifest' = [manifest EXCEPT ![c] = Recorded(t, c)]
          /\ UNCHANGED lapsed
       \/ UNCHANGED manifest /\ lapsed' = lapsed \cup {c}      \* the write failed
    /\ UNCHANGED <<conv, sweep, exists, expired, history, content, lock, stale, run,
                   edits, sent, raced, stray, mishaps>>

(* Whatever raises in the try block goes to its finally. *)
Aborts(t) ==
    /\ pc[t] \in {"claimed", "ended", "delivered"}
    /\ pc' = [pc EXCEPT ![t] = "leaving"]
    /\ lapsed' = IF pc[t] = "delivered" THEN lapsed \cup {conv[t]} ELSE lapsed
    /\ UNCHANGED <<conv, sweep, disk, run, edits, sent, raced, stray, mishaps>>

(* Faulty: the finally keeps the lock. *)
ReleaseKeepsLock(t) ==
    /\ Goes(t, "leaving", "done")
    /\ mounted' = [mounted EXCEPT ![t] = @ /\ box[t]]
    /\ UNCHANGED <<conv, sweep, disk, box, resumed, staged, delivered, past>>

(* finally: unlink(missing_ok), again by name. *)
Release(t) ==
    LET c == conv[t] IN
    /\ Goes(t, "leaving", "done")
    /\ lock' = [lock EXCEPT ![c] = NoOne]
    /\ stale' = [stale EXCEPT ![c] = FALSE]
    /\ expired' = [expired EXCEPT ![c] = @ /\ lock[c] = NoOne]
    /\ mounted' = [mounted EXCEPT ![t] = @ /\ box[t]]
    /\ raced' = IF TakenFrom(t, c) THEN raced \cup {c} ELSE raced
    /\ UNCHANGED <<conv, sweep, exists, history, content, manifest,
                   box, resumed, staged, delivered, edits, sent, lapsed, stray, mishaps>>

-----------------------------------------------------------------------------
(* The environment.                                                        *)

(* The process of a turn dies; its container goes on, nobody will stop it. *)
Crash(t) ==
    /\ pc[t] \in Claiming \cup Working
    /\ Happens("crash")
    /\ pc' = [pc EXCEPT ![t] = "dead"]
    /\ lapsed' = IF pc[t] = "delivered" THEN lapsed \cup {conv[t]} ELSE lapsed
    /\ stray' = IF box[t] THEN stray \cup {conv[t]} ELSE stray
    /\ UNCHANGED <<conv, sweep, disk, run, edits, sent, raced>>

(* Twice the time-out and a minute pass.  A live turn may hold its lock as  *)
(* long: staging, the kill and the uploads have no time-out.               *)
LockAges(c) ==
    /\ lock[c] # NoOne /\ ~stale[c]
    /\ \/ pc[lock[c]] = "dead" /\ UNCHANGED mishaps
       \/ pc[lock[c]] # "dead" /\ Happens("overrun")
    /\ stale' = [stale EXCEPT ![c] = TRUE]
    /\ UNCHANGED <<conv, pc, sweep, exists, expired, history, content, manifest, lock,
                   run, edits, sent, raced, lapsed, stray>>

(* Days pass without a turn in this directory. *)
DirAges(c) ==
    /\ exists[c] /\ ~expired[c]
    /\ \A t \in Turns : conv[t] = c => pc[t] \in {"idle"} \cup Over /\ ~box[t]
    /\ expired' = [expired EXCEPT ![c] = TRUE]
    /\ stale' = [stale EXCEPT ![c] = lock[c] # NoOne]
    /\ Happens("expiry")
    /\ UNCHANGED <<conv, pc, sweep, exists, history, content, manifest, lock, run,
                   edits, sent, raced, lapsed, stray>>

Step(t) ==
    \/ BeginSweep(t) \/ SweepLooks(t) \/ SweepLists(t) \/ SweepUnlinks(t)
    \/ SweepRemoves(t) \/ EndSweep(t)
    \/ MakeDir(t) \/ MakeDirFails(t) \/ LookForLock(t) \/ DateLock(t)
    \/ BreakLock(t) \/ CreateLock(t) \/ GivesUp(t)
    \/ Start(t) \/ BoxWrites(t) \/ BoxEnds(t) \/ BoxOutlives(t) \/ Deliver(t)
    \/ Record(t) \/ Aborts(t) \/ Release(t) \/ Crash(t)

Next == (\E t \in Turns : Step(t)) \/ (\E c \in Convs : LockAges(c) \/ DirAges(c))

Spec == Init /\ [][Next]_vars

(* The turns at work in a conversation's directory. *)
Workers(c) == {t \in Turns : conv[t] = c /\ pc[t] \in Working}

(* Two turns of one conversation work in its directory together only after  *)
(* a live claim was taken away by name: by a turn that found a lock stale,  *)
(* or by a sweep that had found an older directory expired.                 *)
Exclusive == \A c \in Convs \ raced : Cardinality(Workers(c)) <= 1

(* What the manifest calls sent was sent: no version of a file is left out  *)
(* of the artifacts unless exactly this version reached the store before.   *)
(* A claim taken away lets two runs write, and a container that outlives    *)
(* its turn writes between the sending and the record: both are excluded.   *)
NeverWithheld ==
    \A c \in Convs \ (raced \cup stray) :
       \A f \in AlreadyPersisted(c) : <<f, content[c][f]>> \in sent

(* A file nobody changed is not sent a second time, unless the record of    *)
(* it was not written or was swept away.                                    *)
SentOnce ==
    [][\A t \in Turns, f \in Files :
          Deliver(t) /\ f \in delivered'[t] /\ conv[t] \notin raced \cup lapsed
             => <<f, content[conv[t]][f]>> \notin sent]_vars

(* _acquire: two turns of one conversation in one directory would corrupt   *)
(* the CLI's session history, so a directory has one run at a time.         *)
OneRunPerDirectory == \A c \in Convs : Cardinality(Workers(c)) <= 1
=============================================================================
