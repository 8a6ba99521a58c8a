---------------------------- MODULE UserExamples ----------------------------
(***************************************************************************)
(* The examples users write, share, copy and an admin publishes            *)
(* (src/agent_runtime/user_examples.py).  An example is a definition file  *)
(* and data files beside it; a user has a list of the links he opened.     *)
(* Writers take one lock (a thread lock and an flock) for a whole          *)
(* operation; readers take none, and a copy reads without it, creates      *)
(* under it, and writes its definition once more under it.                 *)
(*                                                                         *)
(* The text of a definition and the bytes of a file are the number of the  *)
(* edit that made them.                                                    *)
(***************************************************************************)
EXTENDS Naturals, FiniteSets

CONSTANTS
    Slots,         \* request threads, of all workers
    Users, Admins, \* signed-in users; those who may publish
    Ids, Names,    \* example ids, file names
    NoDef, NoUser, \* no such definition file; nobody
    Free,          \* nobody holds the lock
    MaxExamples,   \* AGENT_EXAMPLES_MAX_PER_USER
    MaxEdits,      \* bound: examples created and edited
    MaxTokens,     \* bound: share tokens made
    MaxFaults      \* bound: operations that fail half way

Definition == [owner : Users, text : Nat, files : SUBSET Names, token : Nat, published : BOOLEAN]

ASSUME ExampleConstants ==
    /\ Admins \subseteq Users /\ NoUser \notin Users /\ Free \notin Slots /\ NoDef \notin Definition
    /\ MaxExamples \in Nat /\ MaxEdits \in Nat /\ MaxTokens \in Nat /\ MaxFaults \in Nat

VARIABLES
    defs,      \* defs[e]: the definition file
    disk,      \* disk[e][n]: the bytes of a data file, 0: no such file
    links,     \* links[u][e]: the token u opened e with, 0: not on his list
    lock,      \* who holds the lock
    reqs,      \* reqs[s]: the request of each thread
    edits, tokens, faults,
    given,     \* history: the link an owner was last given and did not revoke
    approved,  \* history: the text and bytes an admin last left published
    deleted,   \* history: ids whose owner deleted them
    stamped    \* history: ids a copy wrote over with what it had in memory

store == <<defs, disk, links>>
counts == <<edits, tokens, faults>>
past == <<given, approved, deleted, stamped>>
vars == <<store, lock, reqs, counts, past>>

Bytes == [Names -> Nat]
NoBytes == [n \in Names |-> 0]

Updating == {"storing"}
Request == [pc : {"idle", "deleting", "opening", "stamping"} \cup Updating,
            user : Users \cup {NoUser}, e : Ids \cup {NoDef}, def : Definition \cup {NoDef},
            up : SUBSET Names, keep : SUBSET Names, held : Bytes, at : Nat]
At(pc, u, e, def, up, keep, n) ==
    [pc |-> pc, user |-> u, e |-> e, def |-> def, up |-> up, keep |-> keep, held |-> NoBytes, at |-> n]
Idle == At("idle", NoUser, NoDef, NoDef, {}, {}, 0)

Exists(e) == defs[e] # NoDef
Owns(u, e) == Exists(e) /\ defs[e].owner = u
ReachedByLink(u, e) == defs[e].token # 0 /\ links[u][e] = defs[e].token
CanView(u, e) == Exists(e) /\ (defs[e].published \/ Owns(u, e) \/ ReachedByLink(u, e))
Listed(u) == {e \in Ids : Owns(u, e)}
Fresh(e) == ~Exists(e) /\ e \notin deleted /\ disk[e] = NoBytes

Typed ==
    /\ defs \in [Ids -> Definition \cup {NoDef}]
    /\ disk \in [Ids -> Bytes]
    /\ links \in [Users -> [Ids -> Nat]]
    /\ lock \in Slots \cup {Free}
    /\ reqs \in [Slots -> Request]
    /\ edits \in Nat /\ tokens \in Nat /\ faults \in Nat
    /\ given \in [Ids -> Nat]
    /\ approved \in [Ids -> (Nat \X Bytes) \cup {NoDef}]
    /\ deleted \in SUBSET Ids /\ stamped \in SUBSET Ids

(* The lock is held by the thread that edits or deletes. *)
LockHeld == \A s \in Slots : lock = s <=> reqs[s].pc \in Updating \cup {"deleting"}

TypeOK == Typed /\ LockHeld

Init ==
    /\ defs = [e \in Ids |-> NoDef] /\ disk = [e \in Ids |-> NoBytes]
    /\ links = [u \in Users |-> [e \in Ids |-> 0]]
    /\ lock = Free /\ reqs = [s \in Slots |-> Idle]
    /\ edits = 0 /\ tokens = 0 /\ faults = 0
    /\ given = [e \in Ids |-> 0] /\ approved = [e \in Ids |-> NoDef] /\ deleted = {} /\ stamped = {}

(* A thread takes the lock, and keeps it for more steps than one. *)
Takes(s, request) ==
    /\ reqs[s].pc = "idle" /\ lock = Free
    /\ lock' = s /\ reqs' = [reqs EXCEPT ![s] = request]

Leaves(s) == lock' = Free /\ reqs' = [reqs EXCEPT ![s] = Idle]

(* An operation whose reads and whose one write are under the lock. *)
InOneStep(s) == reqs[s].pc = "idle" /\ lock = Free /\ UNCHANGED <<lock, reqs>>

Edited == edits < MaxEdits /\ edits' = edits + 1

-----------------------------------------------------------------------------
(* create: the count, the files, the definition.  Nobody knows the id       *)
(* before the definition is written, so these are one step.                 *)

CountAllows(u) == Cardinality(Listed(u)) < MaxExamples

Written(u, text, S) ==
    [owner |-> u, text |-> text, files |-> S, token |-> 0, published |-> FALSE]

Create(s, u, e) ==
    /\ InOneStep(s) /\ Fresh(e) /\ CountAllows(u) /\ Edited
    /\ \E S \in SUBSET Names :
          /\ disk' = [disk EXCEPT ![e] = [n \in Names |-> IF n \in S THEN edits + 1 ELSE 0]]
          /\ defs' = [defs EXCEPT ![e] = Written(u, edits + 1, S)]
    /\ UNCHANGED <<links, tokens, faults, past>>

(* The definition cannot be written: the files that were stored stay. *)
Strays(e, bytes) ==
    /\ Fresh(e) /\ faults < MaxFaults /\ faults' = faults + 1
    /\ disk' = [disk EXCEPT ![e] = bytes]
    /\ UNCHANGED <<defs, links, tokens, past>>

CreateFails(s, u, e) ==
    /\ InOneStep(s) /\ CountAllows(u) /\ Edited
    /\ \E S \in SUBSET Names : Strays(e, [n \in Names |-> IF n \in S THEN edits + 1 ELSE 0])

-----------------------------------------------------------------------------
(* update: the uploads replace files one by one, the files that are not     *)
(* kept are removed one by one, then the definition is written.             *)

(* Faulty: the definition is read before the lock is taken, by whoever holds it. *)
UpdateReadsUnlocked(s, u, e) ==
    /\ reqs[s].pc = "idle" /\ Owns(u, e) /\ Edited
    /\ \E K \in SUBSET defs[e].files, S \in SUBSET Names :
          reqs' = [reqs EXCEPT ![s] = At("storing", u, e, defs[e], S, K \cup S, edits + 1)]
    /\ UNCHANGED <<lock, store, tokens, faults, past>>

UpdateReads(s, u, e) ==
    /\ Owns(u, e) /\ Edited
    /\ \E K \in SUBSET defs[e].files, S \in SUBSET Names :
          Takes(s, At("storing", u, e, defs[e], S, K \cup S, edits + 1))
    /\ UNCHANGED <<store, tokens, faults, past>>

UpdateReplaces(s) ==
    LET q == reqs[s] IN
    /\ q.pc = "storing"
    /\ \E n \in q.up :
          /\ disk' = [disk EXCEPT ![q.e][n] = q.at]
          /\ reqs' = [reqs EXCEPT ![s].up = @ \ {n}]
    /\ UNCHANGED <<defs, links, lock, counts, past>>

(* Faulty: everything that was there stays. *)
SpareNone(q) == {}

(* The files that are there and not kept. *)
Spare(q) == {n \in Names \ q.keep : disk[q.e][n] # 0}

UpdatePrunes(s) ==
    LET q == reqs[s] IN
    /\ q.pc = "storing" /\ q.up = {}
    /\ \E n \in Spare(q) : disk' = [disk EXCEPT ![q.e][n] = 0]
    /\ UNCHANGED <<defs, links, lock, reqs, counts, past>>

(* Faulty: an edit leaves a published example published. *)
EditedKeepsPublished(q) == [q.def EXCEPT !.text = q.at, !.files = q.keep]

(* The definition an edit writes: unpublished, unless the editor may publish. *)
EditedDef(q) ==
    [q.def EXCEPT !.text = q.at, !.files = q.keep, !.published = @ /\ q.user \in Admins]

Approves(e, def, bytes, u) ==
    approved' = [approved EXCEPT ![e] =
        IF ~def.published THEN NoDef
        ELSE IF u \in Admins THEN <<def.text, bytes>> ELSE @]

UpdateWrites(s) ==
    LET q == reqs[s] IN
    /\ q.pc = "storing" /\ q.up = {} /\ Spare(q) = {}
    /\ defs' = [defs EXCEPT ![q.e] = EditedDef(q)]
    /\ Approves(q.e, EditedDef(q), disk[q.e], q.user)
    /\ Leaves(s)
    /\ UNCHANGED <<disk, links, counts, given, deleted, stamped>>

(* The disk is full, the worker dies: what was replaced stays replaced. *)
Fails(s) ==
    /\ reqs[s].pc \in Updating \cup {"deleting"} /\ faults < MaxFaults
    /\ faults' = faults + 1
    /\ reqs' = [reqs EXCEPT ![s] = Idle]
    /\ lock' = IF lock = s THEN Free ELSE lock
    /\ UNCHANGED <<store, edits, tokens, past>>

-----------------------------------------------------------------------------
DeleteDef(s, u, e) ==
    /\ Owns(u, e)
    /\ Takes(s, At("deleting", u, e, NoDef, {}, {}, 0))
    /\ defs' = [defs EXCEPT ![e] = NoDef]
    /\ deleted' = deleted \cup {e}
    /\ given' = [given EXCEPT ![e] = 0]
    /\ approved' = [approved EXCEPT ![e] = NoDef]
    /\ UNCHANGED <<disk, links, counts, stamped>>

DeleteFiles(s) ==
    LET q == reqs[s] IN
    /\ q.pc = "deleting"
    /\ disk' = [disk EXCEPT ![q.e] = NoBytes]
    /\ Leaves(s)
    /\ UNCHANGED <<defs, links, counts, past>>

-----------------------------------------------------------------------------
(* Links.                                                                  *)

(* The token there is, or a new one: on first use, or when it is rotated. *)
Share(s, u, e, rotate) ==
    /\ InOneStep(s) /\ Owns(u, e)
    /\ \/ /\ rotate \/ defs[e].token = 0
          /\ tokens < MaxTokens /\ tokens' = tokens + 1
          /\ defs' = [defs EXCEPT ![e].token = tokens + 1]
          /\ given' = [given EXCEPT ![e] = tokens + 1]
       \/ /\ ~rotate /\ defs[e].token # 0
          /\ given' = [given EXCEPT ![e] = defs[e].token]
          /\ UNCHANGED <<defs, tokens>>
    /\ UNCHANGED <<disk, links, edits, faults, approved, deleted, stamped>>

Unshare(s, u, e) ==
    /\ InOneStep(s) /\ Owns(u, e) /\ defs[e].token # 0
    /\ defs' = [defs EXCEPT ![e].token = 0]
    /\ given' = [given EXCEPT ![e] = 0]
    /\ UNCHANGED <<disk, links, counts, approved, deleted, stamped>>

OpenShared(s, u, e) ==
    /\ InOneStep(s) /\ Exists(e) /\ defs[e].token # 0 /\ defs[e].owner # u
    /\ links' = [links EXCEPT ![u][e] = defs[e].token]
    /\ UNCHANGED <<defs, disk, counts, past>>

ForgetShared(s, u, e) ==
    /\ InOneStep(s) /\ links[u][e] # 0
    /\ links' = [links EXCEPT ![u][e] = 0]
    /\ UNCHANGED <<defs, disk, counts, past>>

(* Published by an admin who can see it, whatever it says by now; withdrawn *)
(* by an admin or its owner.                                                *)
SetPublished(s, u, e, published) ==
    /\ InOneStep(s) /\ CanView(u, e)
    /\ u \in Admins \/ (~published /\ Owns(u, e))
    /\ defs' = [defs EXCEPT ![e].published = published]
    /\ Approves(e, defs'[e], disk[e], u)
    /\ UNCHANGED <<disk, links, counts, given, deleted, stamped>>

-----------------------------------------------------------------------------
(* copy.                                                                   *)

CopyReads(s, u, e) ==
    /\ reqs[s].pc = "idle" /\ CanView(u, e)
    /\ reqs' = [reqs EXCEPT ![s] = At("opening", u, e, defs[e], defs[e].files, {}, 0)]
    /\ UNCHANGED <<store, lock, counts, past>>

(* An open handle keeps the bytes it was opened on; a file that is gone ends the copy. *)
CopyOpens(s) ==
    LET q == reqs[s] IN
    /\ q.pc = "opening"
    /\ \E n \in q.up :
          reqs' = [reqs EXCEPT ![s] =
             IF disk[q.e][n] = 0 THEN Idle
             ELSE [q EXCEPT !.up = @ \ {n}, !.held[n] = disk[q.e][n]]]
    /\ UNCHANGED <<store, lock, counts, past>>

CopyCreates(s) ==
    LET q == reqs[s] IN
    /\ q.pc = "opening" /\ q.up = {} /\ lock = Free
    /\ \/ /\ ~CountAllows(q.user)
          /\ reqs' = [reqs EXCEPT ![s] = Idle]
          /\ UNCHANGED <<defs, disk>>
       \/ /\ CountAllows(q.user)
          /\ \E e \in Ids :
                LET def == Written(q.user, q.def.text, q.def.files) IN
                /\ Fresh(e)
                /\ disk' = [disk EXCEPT ![e] = q.held]
                /\ defs' = [defs EXCEPT ![e] = def]
                /\ reqs' = [reqs EXCEPT ![s] =
                      At("stamping", q.user, e, def, {}, {}, 0)]
    /\ UNCHANGED <<links, lock, counts, past>>

CopyFails(s) ==
    LET q == reqs[s] IN
    /\ q.pc = "opening" /\ q.up = {} /\ lock = Free /\ CountAllows(q.user)
    /\ \E e \in Ids : Strays(e, q.held)
    /\ reqs' = [reqs EXCEPT ![s] = Idle]
    /\ UNCHANGED <<lock, edits>>

(* Where it was copied from: the definition of a moment ago, written again. *)
CopyStamps(s) ==
    LET q == reqs[s] IN
    /\ q.pc = "stamping" /\ lock = Free
    /\ defs' = [defs EXCEPT ![q.e] = q.def]
    /\ stamped' = IF defs[q.e] = q.def THEN stamped ELSE stamped \cup {q.e}
    /\ reqs' = [reqs EXCEPT ![s] = Idle]
    /\ UNCHANGED <<disk, links, lock, counts, given, approved, deleted>>

-----------------------------------------------------------------------------
Starts(s, u, e) ==
    \/ Create(s, u, e) \/ CreateFails(s, u, e) \/ UpdateReads(s, u, e) \/ DeleteDef(s, u, e)
    \/ (\E rotate \in BOOLEAN : Share(s, u, e, rotate)) \/ Unshare(s, u, e)
    \/ OpenShared(s, u, e) \/ ForgetShared(s, u, e)
    \/ (\E published \in BOOLEAN : SetPublished(s, u, e, published))
    \/ CopyReads(s, u, e)

Continues(s) ==
    \/ UpdateReplaces(s) \/ UpdatePrunes(s) \/ UpdateWrites(s) \/ DeleteFiles(s)
    \/ CopyOpens(s) \/ CopyCreates(s) \/ CopyFails(s) \/ CopyStamps(s) \/ Fails(s)

Next == \E s \in Slots : Continues(s) \/ (\E u \in Users, e \in Ids : Starts(s, u, e))

Spec == Init /\ [][Next]_vars

(* No edit or deletion is under way, and none was cut short. *)
AtRest == lock = Free /\ faults = 0

(* Between operations an example has exactly the files its definition       *)
(* lists: an edit never leaves one dangling, nor one it dropped.  Not so    *)
(* once a copy has written an older definition over a newer one.            *)
FilesBackDefinition ==
    AtRest => \A e \in Ids \ stamped :
                 Exists(e) => defs[e].files = {n \in Names : disk[e][n] # 0}

(* Between operations, what everyone can see is what an admin left          *)
(* published: this text with these bytes.                                   *)
ApprovedAtRest ==
    AtRest => \A e \in Ids \ stamped :
                 Exists(e) /\ defs[e].published => approved[e] = <<defs[e].text, disk[e]>>

(* The link its owner was last given opens an example, and one he revoked   *)
(* or replaced does not, whoever edits, copies or publishes it meanwhile.   *)
LinkKept ==
    \A e \in Ids \ stamped : Exists(e) => defs[e].token = given[e]
=============================================================================
