------------------------- MODULE UserExamplesProofs -------------------------
(***************************************************************************)
(* What TLAPS proves of UserExamples, for any threads, users, examples and *)
(* files, any number of edits, links and failures: the types, the links,   *)
(* the files behind a definition, and what everyone sees.                  *)
(***************************************************************************)
EXTENDS UserExamples, TLAPS

-----------------------------------------------------------------------------
(* Types.                                                                  *)

Locked == Updating \cup {"deleting"}

(* A thread that edits, deletes or copies has an example; one that edits or *)
(* copies has read its definition.                                          *)
Asked(q) ==
    /\ q.pc # "idle" => q.user \in Users /\ q.e \in Ids
    /\ q.pc \in Updating \cup {"opening", "stamping"} => q.def \in Definition

ReqInv == \A s \in Slots : Asked(reqs[s])

LEMMA IdleType == Idle \in Request /\ Asked(Idle) /\ Idle.pc = "idle"
  BY DEF Idle, At, Request, NoBytes, Bytes, Asked, Updating

LEMMA InitTyped == Init => Typed /\ LockHeld /\ ReqInv
<1> SUFFICES ASSUME Init PROVE Typed /\ LockHeld /\ ReqInv
  OBVIOUS
<1>1. Typed
  BY IdleType DEF Init, Typed, NoBytes, Bytes
<1>2. LockHeld /\ ReqInv
  BY IdleType, ExampleConstants DEF Init, LockHeld, ReqInv, Updating
<1>3. QED
  BY <1>1, <1>2

(* What a definition is turned into is a definition. *)
LEMMA WrittenType ==
  ASSUME NEW u \in Users, NEW n \in Nat, NEW S \in SUBSET Names
  PROVE  Written(u, n, S) \in Definition
  BY DEF Written, Definition

LEMMA TokenType ==
  ASSUME NEW d \in Definition, NEW n \in Nat
  PROVE  [d EXCEPT !.token = n] \in Definition /\ d.token \in Nat
  BY DEF Definition

LEMMA EditedType ==
  ASSUME NEW q \in Request, q.def \in Definition PROVE EditedDef(q) \in Definition
  BY DEF EditedDef, Definition, Request

(* A thread's next request, with the lock taken, left or kept as it must be. *)
LEMMA ReqsStep ==
  ASSUME Typed, LockHeld, ReqInv, NEW s \in Slots, NEW q \in Request, Asked(q),
         reqs' = [reqs EXCEPT ![s] = q],
         \/ lock' = lock /\ (q.pc \in Locked <=> reqs[s].pc \in Locked)
         \/ lock = Free /\ lock' = s /\ q.pc \in Locked
         \/ reqs[s].pc \in Locked /\ lock' = Free /\ q.pc \notin Locked
  PROVE  reqs' \in [Slots -> Request] /\ lock' \in Slots \cup {Free} /\ ReqInv' /\ LockHeld'
<1>1. reqs' \in [Slots -> Request] /\ lock' \in Slots \cup {Free}
  BY DEF Typed
<1>2. \A t \in Slots : reqs'[t] = IF t = s THEN q ELSE reqs[t]
  BY DEF Typed
<1>3. ReqInv'
  <2> SUFFICES ASSUME NEW t \in Slots PROVE Asked(reqs'[t])
    BY DEF ReqInv, Asked
  <2>1. QED
    BY <1>2 DEF ReqInv
<1>4. \A t \in Slots : lock = t <=> reqs[t].pc \in Locked
  BY DEF LockHeld, Locked
<1>5. \A t \in Slots : lock' = t <=> reqs'[t].pc \in Locked
  BY <1>2, <1>4, ExampleConstants
<1>6. LockHeld'
  BY <1>5 DEF LockHeld, Locked
<1>7. QED
  BY <1>1, <1>3, <1>6

(* While nobody holds the lock nobody edits or deletes; while one does, only he. *)
LEMMA Alone ==
  ASSUME LockHeld
  PROVE  /\ lock = Free => \A t \in Slots : reqs[t].pc \notin Locked
         /\ \A s, t \in Slots : reqs[s].pc \in Locked /\ reqs[t].pc \in Locked => s = t
  BY ExampleConstants DEF LockHeld, Locked

-----------------------------------------------------------------------------
(* What each step does: the request it leaves behind, and the types.       *)

TInv == Typed /\ LockHeld /\ ReqInv

LEMMA UpdateReadsType ==
  ASSUME TInv, NEW s \in Slots, NEW u \in Users, NEW e \in Ids, UpdateReads(s, u, e)
  PROVE  TInv'
<1>1. PICK K \in SUBSET defs[e].files, S \in SUBSET Names :
        Takes(s, At("storing", u, e, defs[e], S, K \cup S, edits + 1))
  BY DEF UpdateReads
<1>2. defs[e] \in Definition /\ K \in SUBSET Names
  BY DEF UpdateReads, Owns, Exists, TInv, Typed, Definition
<1> DEFINE q == At("storing", u, e, defs[e], S, K \cup S, edits + 1)
<1>3. q \in Request /\ Asked(q) /\ q.pc \in Locked
  BY <1>2 DEF Request, Updating, TInv, Typed, NoBytes, Bytes, At, Asked, Locked
<1>4. reqs' = [reqs EXCEPT ![s] = q] /\ lock = Free /\ lock' = s
  BY <1>1 DEF Takes
<1>5. UNCHANGED <<store, tokens, faults, past>> /\ edits' = edits + 1
  BY DEF UpdateReads, Edited
<1> HIDE DEF q
<1>6. reqs' \in [Slots -> Request] /\ lock' \in Slots \cup {Free} /\ ReqInv' /\ LockHeld'
  BY <1>3, <1>4, ReqsStep DEF TInv
<1>7. Typed'
  BY <1>5, <1>6 DEF TInv, Typed, store, past
<1>8. QED
  BY <1>6, <1>7 DEF TInv

(* An operation in one step leaves threads and lock alone. *)
LEMMA OneStepType ==
  ASSUME TInv, NEW s \in Slots, InOneStep(s) PROVE reqs' = reqs /\ lock' = lock /\ ReqInv' /\ LockHeld'
<1>1. reqs' = reqs /\ lock' = lock
  BY DEF InOneStep
<1>2. LockHeld' /\ ReqInv'
  BY <1>1 DEF TInv, LockHeld, ReqInv, Asked
<1>3. QED
  BY <1>1, <1>2

LEMMA CreateType ==
  ASSUME TInv, NEW s \in Slots, NEW u \in Users, NEW e \in Ids, Create(s, u, e)
  PROVE  TInv'
<1>1. PICK S \in SUBSET Names :
          /\ disk' = [disk EXCEPT ![e] = [n \in Names |-> IF n \in S THEN edits + 1 ELSE 0]]
          /\ defs' = [defs EXCEPT ![e] = Written(u, edits + 1, S)]
  BY DEF Create
<1>2. edits + 1 \in Nat /\ edits' = edits + 1 /\ UNCHANGED <<links, tokens, faults, past>> /\ InOneStep(s)
  BY DEF Create, Edited, TInv, Typed
<1>3. Written(u, edits + 1, S) \in Definition /\ [n \in Names |-> IF n \in S THEN edits + 1 ELSE 0] \in Bytes
  BY <1>2, WrittenType DEF Bytes
<1>4. reqs' = reqs /\ lock' = lock /\ ReqInv' /\ LockHeld'
  BY <1>2, OneStepType
<1>5. Typed'
  BY <1>1, <1>2, <1>3, <1>4 DEF TInv, Typed, past
<1>6. QED
  BY <1>4, <1>5 DEF TInv

(* What a failing create leaves behind. *)
LEMMA StraysType ==
  ASSUME TInv, NEW e \in Ids, NEW bytes \in Bytes, Strays(e, bytes)
  PROVE  /\ disk' \in [Ids -> Bytes] /\ faults' \in Nat /\ faults' # 0
         /\ UNCHANGED <<defs, links, tokens, past>>
  BY DEF Strays, TInv, Typed

LEMMA CreateFailsType ==
  ASSUME TInv, NEW s \in Slots, NEW u \in Users, NEW e \in Ids, CreateFails(s, u, e)
  PROVE  TInv' /\ faults' # 0 /\ UNCHANGED <<defs, links, tokens, past>>
<1>1. PICK S \in SUBSET Names : Strays(e, [n \in Names |-> IF n \in S THEN edits + 1 ELSE 0])
  BY DEF CreateFails
<1>2. edits + 1 \in Nat /\ edits' = edits + 1 /\ InOneStep(s)
  BY DEF CreateFails, Edited, TInv, Typed
<1>3. [n \in Names |-> IF n \in S THEN edits + 1 ELSE 0] \in Bytes
  BY <1>2 DEF Bytes
<1>4. /\ disk' \in [Ids -> Bytes] /\ faults' \in Nat /\ faults' # 0
      /\ UNCHANGED <<defs, links, tokens, past>>
  BY <1>1, <1>3, StraysType
<1>5. reqs' = reqs /\ lock' = lock /\ ReqInv' /\ LockHeld'
  BY <1>2, OneStepType
<1>6. Typed'
  BY <1>2, <1>4, <1>5 DEF TInv, Typed, past
<1>7. QED
  BY <1>4, <1>5, <1>6 DEF TInv

LEMMA DeleteDefType ==
  ASSUME TInv, NEW s \in Slots, NEW u \in Users, NEW e \in Ids, DeleteDef(s, u, e)
  PROVE  TInv'
<1> DEFINE q == At("deleting", u, e, NoDef, {}, {}, 0)
<1>1. q \in Request /\ Asked(q) /\ q.pc \in Locked
  BY DEF Request, Updating, NoBytes, Bytes, At, Asked, Locked
<1>2. reqs' = [reqs EXCEPT ![s] = q] /\ lock = Free /\ lock' = s
  BY DEF DeleteDef, Takes
<1> HIDE DEF q
<1>3. reqs' \in [Slots -> Request] /\ lock' \in Slots \cup {Free} /\ ReqInv' /\ LockHeld'
  BY <1>1, <1>2, ReqsStep DEF TInv
<1>4. /\ defs' = [defs EXCEPT ![e] = NoDef] /\ deleted' = deleted \cup {e}
      /\ given' = [given EXCEPT ![e] = 0] /\ approved' = [approved EXCEPT ![e] = NoDef]
      /\ UNCHANGED <<disk, links, counts, stamped>>
  BY DEF DeleteDef
<1>5. Typed'
  BY <1>3, <1>4 DEF TInv, Typed, counts
<1>6. QED
  BY <1>3, <1>5 DEF TInv

LEMMA ShareType ==
  ASSUME TInv, NEW s \in Slots, NEW u \in Users, NEW e \in Ids, NEW rotate \in BOOLEAN, Share(s, u, e, rotate)
  PROVE  TInv'
<1>1. InOneStep(s) /\ UNCHANGED <<disk, links, edits, faults, approved, deleted, stamped>>
  BY DEF Share
<1>2. reqs' = reqs /\ lock' = lock /\ ReqInv' /\ LockHeld'
  BY <1>1, OneStepType
<1>3. defs[e] \in Definition
  BY DEF Share, Owns, Exists, TInv, Typed
<1>4. tokens + 1 \in Nat
  BY DEF TInv, Typed
<1>5. defs' \in [Ids -> Definition \cup {NoDef}] /\ given' \in [Ids -> Nat] /\ tokens' \in Nat
  <2>1. CASE /\ tokens' = tokens + 1
             /\ defs' = [defs EXCEPT ![e] = [defs[e] EXCEPT !.token = tokens + 1]]
             /\ given' = [given EXCEPT ![e] = tokens + 1]
    <3>1. [defs[e] EXCEPT !.token = tokens + 1] \in Definition
      BY <1>3, <1>4, TokenType
    <3>2. QED
      BY <2>1, <3>1, <1>4 DEF TInv, Typed
  <2>2. CASE given' = [given EXCEPT ![e] = defs[e].token] /\ UNCHANGED <<defs, tokens>>
    <3>1. defs[e].token \in Nat
      BY <1>3, TokenType
    <3>2. QED
      BY <2>2, <3>1 DEF TInv, Typed
  <2>3. QED
    BY <2>1, <2>2 DEF Share
<1>6. Typed'
  BY <1>1, <1>2, <1>5 DEF TInv, Typed
<1>7. QED
  BY <1>2, <1>6 DEF TInv

LEMMA UnshareType ==
  ASSUME TInv, NEW s \in Slots, NEW u \in Users, NEW e \in Ids, Unshare(s, u, e)
  PROVE  TInv'
<1>1. InOneStep(s) /\ UNCHANGED <<disk, links, counts, approved, deleted, stamped>>
  BY DEF Unshare
<1>2. reqs' = reqs /\ lock' = lock /\ ReqInv' /\ LockHeld'
  BY <1>1, OneStepType
<1>3. defs[e] \in Definition
  BY DEF Unshare, Owns, Exists, TInv, Typed
<1>4. [defs[e] EXCEPT !.token = 0] \in Definition
  BY <1>3 DEF Definition
<1>5. defs' \in [Ids -> Definition \cup {NoDef}] /\ given' \in [Ids -> Nat]
  BY <1>4 DEF Unshare, TInv, Typed
<1>6. Typed'
  BY <1>1, <1>2, <1>5 DEF TInv, Typed, counts
<1>7. QED
  BY <1>2, <1>6 DEF TInv

LEMMA LinksType ==
  ASSUME TInv, NEW s \in Slots, NEW u \in Users, NEW e \in Ids,
         OpenShared(s, u, e) \/ ForgetShared(s, u, e)
  PROVE  TInv' /\ UNCHANGED <<defs, disk, lock, reqs, counts, past>>
<1>1. InOneStep(s) /\ UNCHANGED <<defs, disk, counts, past>>
  BY DEF OpenShared, ForgetShared
<1>2. reqs' = reqs /\ lock' = lock /\ ReqInv' /\ LockHeld'
  BY <1>1, OneStepType
<1>3. links' \in [Users -> [Ids -> Nat]]
  <2>1. CASE OpenShared(s, u, e)
    <3>1. defs[e] \in Definition
      BY <2>1 DEF OpenShared, Exists, TInv, Typed
    <3>2. defs[e].token \in Nat
      BY <3>1 DEF Definition
    <3>3. QED
      BY <2>1, <3>2 DEF OpenShared, TInv, Typed
  <2>2. CASE ForgetShared(s, u, e)
    BY <2>2 DEF ForgetShared, TInv, Typed
  <2>3. QED
    BY <2>1, <2>2
<1>4. Typed'
  BY <1>1, <1>2, <1>3 DEF TInv, Typed, counts, past
<1>5. QED
  BY <1>1, <1>2, <1>4 DEF TInv

LEMMA ApprovesType ==
  ASSUME TInv, NEW e \in Ids, NEW def \in Definition, NEW bytes \in Bytes, NEW u, Approves(e, def, bytes, u)
  PROVE  approved' \in [Ids -> (Nat \X Bytes) \cup {NoDef}]
<1>1. <<def.text, bytes>> \in Nat \X Bytes
  BY DEF Definition
<1>2. QED
  BY <1>1 DEF Approves, TInv, Typed

LEMMA SetPublishedType ==
  ASSUME TInv, NEW s \in Slots, NEW u \in Users, NEW e \in Ids, NEW published \in BOOLEAN,
         SetPublished(s, u, e, published)
  PROVE  TInv'
<1>1. InOneStep(s) /\ UNCHANGED <<disk, links, counts, given, deleted, stamped>>
  BY DEF SetPublished
<1>2. reqs' = reqs /\ lock' = lock /\ ReqInv' /\ LockHeld'
  BY <1>1, OneStepType
<1>3. defs[e] \in Definition
  BY DEF SetPublished, CanView, Exists, TInv, Typed
<1>4. [defs[e] EXCEPT !.published = published] \in Definition
  BY <1>3 DEF Definition
<1>5. defs' = [defs EXCEPT ![e] = [defs[e] EXCEPT !.published = published]]
  BY DEF SetPublished
<1>6. defs' \in [Ids -> Definition \cup {NoDef}] /\ defs'[e] \in Definition /\ disk[e] \in Bytes
  BY <1>4, <1>5 DEF TInv, Typed
<1>7. Approves(e, defs'[e], disk[e], u)
  BY DEF SetPublished
<1>8. approved' \in [Ids -> (Nat \X Bytes) \cup {NoDef}]
  BY <1>6, <1>7, ApprovesType
<1>9. Typed'
  BY <1>1, <1>2, <1>6, <1>8 DEF TInv, Typed, counts
<1>10. QED
  BY <1>2, <1>9 DEF TInv

LEMMA CopyReadsType ==
  ASSUME TInv, NEW s \in Slots, NEW u \in Users, NEW e \in Ids, CopyReads(s, u, e)
  PROVE  TInv'
<1> DEFINE q == At("opening", u, e, defs[e], defs[e].files, {}, 0)
<1>1. defs[e] \in Definition
  BY DEF CopyReads, CanView, Exists, TInv, Typed
<1>2. defs[e].files \in SUBSET Names
  BY <1>1 DEF Definition
<1>3. q \in Request /\ Asked(q) /\ q.pc \notin Locked
  BY <1>1, <1>2 DEF Request, Updating, NoBytes, Bytes, At, Asked, Locked
<1>4. reqs' = [reqs EXCEPT ![s] = q] /\ reqs[s].pc \notin Locked /\ UNCHANGED <<store, lock, counts, past>>
  BY DEF CopyReads, Locked, Updating
<1> HIDE DEF q
<1>5. reqs' \in [Slots -> Request] /\ lock' \in Slots \cup {Free} /\ ReqInv' /\ LockHeld'
  BY <1>3, <1>4, ReqsStep DEF TInv
<1>6. Typed'
  BY <1>4, <1>5 DEF TInv, Typed, store, counts, past
<1>7. QED
  BY <1>5, <1>6 DEF TInv

(* What a thread past its first step stands on. *)
LEMMA Standing ==
  ASSUME TInv, NEW s \in Slots, reqs[s].pc # "idle"
  PROVE  /\ reqs[s] \in Request /\ reqs[s].user \in Users /\ reqs[s].e \in Ids
         /\ disk[reqs[s].e] \in Bytes /\ Asked(reqs[s])
<1>1. reqs[s] \in Request /\ Asked(reqs[s])
  BY DEF TInv, Typed, ReqInv
<1>2. reqs[s].user \in Users /\ reqs[s].e \in Ids
  BY <1>1 DEF Asked
<1>3. QED
  BY <1>1, <1>2 DEF TInv, Typed

LEMMA UpdateReplacesType ==
  ASSUME TInv, NEW s \in Slots, UpdateReplaces(s)
  PROVE  TInv'
<1>1. PICK n \in reqs[s].up :
          /\ disk' = [disk EXCEPT ![reqs[s].e][n] = reqs[s].at]
          /\ reqs' = [reqs EXCEPT ![s].up = @ \ {n}]
  BY DEF UpdateReplaces
<1>2. reqs[s].pc = "storing" /\ UNCHANGED <<defs, links, lock, counts, past>>
  BY DEF UpdateReplaces
<1> DEFINE q == [reqs[s] EXCEPT !.up = @ \ {n}]
<1>3. reqs[s] \in Request /\ reqs[s].e \in Ids /\ Asked(reqs[s]) /\ n \in Names /\ reqs[s].at \in Nat
  BY <1>2, Standing DEF Request
<1>4. q \in Request /\ Asked(q) /\ q.pc = "storing"
  BY <1>2, <1>3 DEF Request, Asked
<1>5. reqs' = [reqs EXCEPT ![s] = q] /\ reqs[s].pc \in Locked /\ q.pc \in Locked /\ lock' = lock
  BY <1>1, <1>2, <1>4 DEF Locked, Updating
<1> HIDE DEF q
<1>6. reqs' \in [Slots -> Request] /\ lock' \in Slots \cup {Free} /\ ReqInv' /\ LockHeld'
  BY <1>4, <1>5, ReqsStep DEF TInv
<1>7. disk' \in [Ids -> Bytes]
  BY <1>1, <1>3 DEF TInv, Typed, Bytes
<1>8. Typed'
  BY <1>2, <1>6, <1>7 DEF TInv, Typed, counts, past
<1>9. QED
  BY <1>6, <1>8 DEF TInv

LEMMA UpdatePrunesType ==
  ASSUME TInv, NEW s \in Slots, UpdatePrunes(s)
  PROVE  TInv'
<1>1. reqs[s].pc = "storing" /\ UNCHANGED <<defs, links, lock, reqs, counts, past>>
  BY DEF UpdatePrunes
<1>2. PICK n \in Spare(reqs[s]) : disk' = [disk EXCEPT ![reqs[s].e][n] = 0]
  BY DEF UpdatePrunes
<1>3. reqs[s].e \in Ids /\ n \in Names
  BY <1>1, Standing DEF Spare
<1>4. disk' \in [Ids -> Bytes]
  BY <1>2, <1>3 DEF TInv, Typed, Bytes
<1>5. Typed'
  BY <1>1, <1>4 DEF TInv, Typed, counts, past
<1>6. QED
  BY <1>1, <1>5 DEF TInv, LockHeld, ReqInv, Asked

(* A thread that is done goes idle; the lock is left by the one who had it. *)
LEMMA DoneType ==
  ASSUME TInv, NEW s \in Slots, reqs' = [reqs EXCEPT ![s] = Idle],
         \/ reqs[s].pc \in Locked /\ lock' = Free
         \/ reqs[s].pc \notin Locked /\ lock' = lock
  PROVE  reqs' \in [Slots -> Request] /\ lock' \in Slots \cup {Free} /\ ReqInv' /\ LockHeld'
<1>1. Idle \in Request /\ Asked(Idle) /\ Idle.pc \notin Locked
  BY IdleType DEF Locked, Updating
<1>2. QED
  BY <1>1, ReqsStep DEF TInv

LEMMA UpdateWritesType ==
  ASSUME TInv, NEW s \in Slots, UpdateWrites(s)
  PROVE  TInv'
<1>1. /\ reqs[s].pc = "storing" /\ UNCHANGED <<disk, links, counts, given, deleted, stamped>>
      /\ defs' = [defs EXCEPT ![reqs[s].e] = EditedDef(reqs[s])]
      /\ Approves(reqs[s].e, EditedDef(reqs[s]), disk[reqs[s].e], reqs[s].user)
      /\ lock' = Free /\ reqs' = [reqs EXCEPT ![s] = Idle]
  BY DEF UpdateWrites, Leaves
<1>2. reqs[s] \in Request /\ reqs[s].e \in Ids /\ Asked(reqs[s]) /\ disk[reqs[s].e] \in Bytes
  BY <1>1, Standing
<1>3. reqs[s].def \in Definition /\ reqs[s].pc \in Locked
  BY <1>1, <1>2 DEF Asked, Updating, Locked
<1>4. EditedDef(reqs[s]) \in Definition
  BY <1>2, <1>3, EditedType
<1>5. approved' \in [Ids -> (Nat \X Bytes) \cup {NoDef}]
  BY <1>1, <1>2, <1>4, ApprovesType
<1>6. reqs' \in [Slots -> Request] /\ lock' \in Slots \cup {Free} /\ ReqInv' /\ LockHeld'
  BY <1>1, <1>3, DoneType
<1>7. Typed'
  BY <1>1, <1>2, <1>4, <1>5, <1>6 DEF TInv, Typed, counts
<1>8. QED
  BY <1>6, <1>7 DEF TInv

LEMMA FailsType ==
  ASSUME TInv, NEW s \in Slots, Fails(s)
  PROVE  TInv' /\ reqs' = [reqs EXCEPT ![s] = Idle] /\ UNCHANGED <<store, edits, tokens, past>> /\ faults' # 0
<1>1. /\ reqs[s].pc \in Locked /\ faults' = faults + 1
      /\ reqs' = [reqs EXCEPT ![s] = Idle] /\ UNCHANGED <<store, edits, tokens, past>>
      /\ lock' = IF lock = s THEN Free ELSE lock
  BY DEF Fails, Locked
<1>2. lock' = Free
  BY <1>1 DEF TInv, LockHeld, Locked
<1>3. reqs' \in [Slots -> Request] /\ lock' \in Slots \cup {Free} /\ ReqInv' /\ LockHeld'
  BY <1>1, <1>2, DoneType
<1>4. faults' \in Nat /\ faults' # 0
  BY <1>1 DEF TInv, Typed
<1>5. Typed'
  BY <1>1, <1>3, <1>4 DEF TInv, Typed, store, past
<1>6. QED
  BY <1>1, <1>3, <1>4, <1>5 DEF TInv

LEMMA DeleteFilesType ==
  ASSUME TInv, NEW s \in Slots, DeleteFiles(s)
  PROVE  TInv'
<1>1. /\ reqs[s].pc = "deleting" /\ UNCHANGED <<defs, links, counts, past>>
      /\ disk' = [disk EXCEPT ![reqs[s].e] = NoBytes]
      /\ lock' = Free /\ reqs' = [reqs EXCEPT ![s] = Idle]
  BY DEF DeleteFiles, Leaves
<1>2. reqs[s].pc \in Locked /\ NoBytes \in Bytes
  BY <1>1 DEF Locked, NoBytes, Bytes
<1>3. reqs' \in [Slots -> Request] /\ lock' \in Slots \cup {Free} /\ ReqInv' /\ LockHeld'
  BY <1>1, <1>2, DoneType
<1>4. Typed'
  BY <1>1, <1>2, <1>3 DEF TInv, Typed, counts, past
<1>5. QED
  BY <1>3, <1>4 DEF TInv

LEMMA CopyOpensType ==
  ASSUME TInv, NEW s \in Slots, CopyOpens(s)
  PROVE  TInv'
<1>1. PICK n \in reqs[s].up :
          reqs' = [reqs EXCEPT ![s] =
             IF disk[reqs[s].e][n] = 0 THEN Idle
             ELSE [reqs[s] EXCEPT !.up = @ \ {n}, !.held[n] = disk[reqs[s].e][n]]]
  BY DEF CopyOpens
<1>2. reqs[s].pc = "opening" /\ UNCHANGED <<store, lock, counts, past>>
  BY DEF CopyOpens
<1>3. reqs[s] \in Request /\ reqs[s].e \in Ids /\ Asked(reqs[s]) /\ disk[reqs[s].e] \in Bytes /\ n \in Names
  BY <1>2, Standing DEF Request
<1>4. reqs[s].pc \notin Locked
  BY <1>2 DEF Locked, Updating
<1> DEFINE q == [reqs[s] EXCEPT !.up = @ \ {n}, !.held[n] = disk[reqs[s].e][n]]
<1>5. q \in Request /\ Asked(q) /\ q.pc \notin Locked
  BY <1>2, <1>3 DEF Request, Asked, Bytes, Locked, Updating
<1>6. reqs' \in [Slots -> Request] /\ lock' \in Slots \cup {Free} /\ ReqInv' /\ LockHeld'
  <2>1. CASE reqs' = [reqs EXCEPT ![s] = Idle]
    BY <2>1, <1>2, <1>4, DoneType
  <2>2. CASE reqs' = [reqs EXCEPT ![s] = q]
    <3> HIDE DEF q
    <3>1. QED
      BY <2>2, <1>2, <1>4, <1>5, ReqsStep DEF TInv
  <2>3. QED
    BY <1>1, <2>1, <2>2
<1> HIDE DEF q
<1>7. Typed'
  BY <1>2, <1>6 DEF TInv, Typed, store, counts, past
<1>8. QED
  BY <1>6, <1>7 DEF TInv

(* A copy that may be made: its id, and what the thread goes on with. *)
CopyOf(s, e) ==
    LET def == Written(reqs[s].user, reqs[s].def.text, reqs[s].def.files) IN
    /\ Fresh(e)
    /\ disk' = [disk EXCEPT ![e] = reqs[s].held]
    /\ defs' = [defs EXCEPT ![e] = def]
    /\ reqs' = [reqs EXCEPT ![s] = At("stamping", reqs[s].user, e, def, {}, {}, 0)]

LEMMA CopyCases ==
  ASSUME NEW s, CopyCreates(s)
  PROVE  /\ reqs[s].pc = "opening" /\ reqs[s].up = {} /\ lock = Free
         /\ UNCHANGED <<links, lock, counts, past>>
         /\ \/ reqs' = [reqs EXCEPT ![s] = Idle] /\ UNCHANGED <<defs, disk>>
            \/ \E e \in Ids : CopyOf(s, e)
  BY DEF CopyCreates, CopyOf

LEMMA CopyCreatesType ==
  ASSUME TInv, NEW s \in Slots, CopyCreates(s)
  PROVE  TInv'
<1>1. reqs[s].pc = "opening" /\ UNCHANGED <<links, lock, counts, past>>
  BY CopyCases
<1>2. reqs[s] \in Request /\ Asked(reqs[s]) /\ reqs[s].user \in Users
  BY <1>1, Standing
<1>3. reqs[s].pc \notin Locked /\ reqs[s].def \in Definition /\ reqs[s].held \in Bytes
  BY <1>1, <1>2 DEF Locked, Updating, Asked, Request
<1>4. CASE reqs' = [reqs EXCEPT ![s] = Idle] /\ UNCHANGED <<defs, disk>>
  <2>1. reqs' \in [Slots -> Request] /\ lock' \in Slots \cup {Free} /\ ReqInv' /\ LockHeld'
    BY <1>1, <1>3, <1>4, DoneType
  <2>2. Typed'
    BY <1>1, <1>4, <2>1 DEF TInv, Typed, counts, past
  <2>3. QED
    BY <2>1, <2>2 DEF TInv
<1>5. CASE \E e \in Ids : CopyOf(s, e)
  <2> DEFINE def == Written(reqs[s].user, reqs[s].def.text, reqs[s].def.files)
  <2>1. PICK e \in Ids : CopyOf(s, e)
    BY <1>5
  <2> DEFINE q == At("stamping", reqs[s].user, e, def, {}, {}, 0)
  <2>2. def \in Definition
    BY <1>2, <1>3, WrittenType DEF Definition
  <2>3. /\ disk' = [disk EXCEPT ![e] = reqs[s].held] /\ defs' = [defs EXCEPT ![e] = def]
        /\ reqs' = [reqs EXCEPT ![s] = q]
    BY <2>1 DEF CopyOf
  <2> HIDE DEF def
  <2>4. q \in Request /\ Asked(q) /\ q.pc \notin Locked
    BY <1>2, <2>2 DEF At, Request, Asked, NoBytes, Bytes, Locked, Updating
  <2> HIDE DEF q
  <2>5. reqs' \in [Slots -> Request] /\ lock' \in Slots \cup {Free} /\ ReqInv' /\ LockHeld'
    BY <1>1, <1>3, <2>3, <2>4, ReqsStep DEF TInv
  <2>6. Typed'
    BY <1>1, <1>3, <2>2, <2>3, <2>5 DEF TInv, Typed, counts, past
  <2>7. QED
    BY <2>5, <2>6 DEF TInv
<1>6. QED
  BY <1>4, <1>5, CopyCases

LEMMA CopyFailsType ==
  ASSUME TInv, NEW s \in Slots, CopyFails(s)
  PROVE  /\ TInv' /\ faults' # 0 /\ UNCHANGED <<defs, links, tokens, past>>
         /\ reqs' = [reqs EXCEPT ![s] = Idle] /\ lock' = lock
<1>1. PICK e \in Ids : Strays(e, reqs[s].held)
  BY DEF CopyFails
<1>2. /\ reqs[s].pc = "opening" /\ reqs' = [reqs EXCEPT ![s] = Idle]
      /\ lock' = lock /\ edits' = edits
  BY DEF CopyFails
<1>3. reqs[s].pc \notin Locked /\ reqs[s].held \in Bytes
  BY <1>2, Standing DEF Locked, Updating, Request
<1>4. /\ disk' \in [Ids -> Bytes] /\ faults' \in Nat /\ faults' # 0
      /\ UNCHANGED <<defs, links, tokens, past>>
  BY <1>1, <1>3, StraysType
<1>5. reqs' \in [Slots -> Request] /\ lock' \in Slots \cup {Free} /\ ReqInv' /\ LockHeld'
  BY <1>2, <1>3, DoneType
<1>6. Typed'
  BY <1>2, <1>4, <1>5 DEF TInv, Typed, past
<1>7. QED
  BY <1>2, <1>4, <1>5, <1>6 DEF TInv

LEMMA CopyStampsType ==
  ASSUME TInv, NEW s \in Slots, CopyStamps(s)
  PROVE  TInv'
<1>1. /\ reqs[s].pc = "stamping" /\ reqs' = [reqs EXCEPT ![s] = Idle]
      /\ defs' = [defs EXCEPT ![reqs[s].e] = reqs[s].def]
      /\ stamped' = IF defs[reqs[s].e] = reqs[s].def THEN stamped ELSE stamped \cup {reqs[s].e}
      /\ UNCHANGED <<disk, links, lock, counts, given, approved, deleted>>
  BY DEF CopyStamps
<1>2. reqs[s].e \in Ids /\ Asked(reqs[s])
  BY <1>1, Standing
<1>3. reqs[s].pc \notin Locked /\ reqs[s].def \in Definition
  BY <1>1, <1>2 DEF Locked, Updating, Asked
<1>4. reqs' \in [Slots -> Request] /\ lock' \in Slots \cup {Free} /\ ReqInv' /\ LockHeld'
  BY <1>1, <1>3, DoneType
<1>5. Typed'
  BY <1>1, <1>2, <1>3, <1>4 DEF TInv, Typed, counts
<1>6. QED
  BY <1>4, <1>5 DEF TInv

LEMMA TypeStep == TInv /\ [Next]_vars => TInv'
<1> SUFFICES ASSUME TInv, [Next]_vars PROVE TInv'
  OBVIOUS
<1>1. CASE UNCHANGED vars
  BY <1>1 DEF vars, store, counts, past, TInv, Typed, LockHeld, ReqInv, Asked
<1>2. ASSUME NEW s \in Slots, NEW u \in Users, NEW e \in Ids, Starts(s, u, e) PROVE TInv'
  BY <1>2, CreateType, CreateFailsType, UpdateReadsType, DeleteDefType, ShareType, UnshareType, LinksType,
     SetPublishedType, CopyReadsType DEF Starts
<1>3. ASSUME NEW s \in Slots, Continues(s) PROVE TInv'
  BY <1>3, UpdateReplacesType, UpdatePrunesType, UpdateWritesType, DeleteFilesType,
     CopyOpensType, CopyCreatesType, CopyFailsType, CopyStampsType, FailsType DEF Continues
<1>4. QED
  BY <1>1, <1>2, <1>3 DEF Next

(* Every state of the module is well typed, and the lock is held by exactly *)
(* the thread that is editing or deleting, whatever fails half way.         *)
THEOREM TypeCorrect == Spec => []TypeOK
<1>1. Init => TInv
  BY InitTyped DEF TInv
<1>2. TInv => TypeOK
  BY DEF TInv, TypeOK
<1>3. QED
  BY <1>1, <1>2, TypeStep, PTL DEF Spec

-----------------------------------------------------------------------------
(* The definition an edit has read is the one on disk until it writes, and  *)
(* what is being deleted has none: nobody else writes under the lock.       *)

DefInv == \A s \in Slots :
    /\ reqs[s].pc \in Updating => defs[reqs[s].e] = reqs[s].def
    /\ reqs[s].pc = "deleting" => defs[reqs[s].e] = NoDef

LEMMA DefFollows ==
  ASSUME TInv, DefInv, NEW s \in Slots, NEW q, reqs' = [reqs EXCEPT ![s] = q],
         q.pc \in Updating => defs'[q.e] = q.def, q.pc = "deleting" => defs'[q.e] = NoDef,
         lock = Free \/ reqs[s].pc \in Locked \/ defs' = defs
  PROVE  DefInv'
<1> SUFFICES ASSUME NEW t \in Slots
             PROVE  /\ reqs'[t].pc \in Updating => defs'[reqs'[t].e] = reqs'[t].def
                    /\ reqs'[t].pc = "deleting" => defs'[reqs'[t].e] = NoDef
  BY DEF DefInv, Updating
<1>1. reqs'[t] = IF t = s THEN q ELSE reqs[t]
  BY DEF TInv, Typed
<1>2. CASE t = s
  BY <1>1, <1>2
<1>3. CASE t # s /\ defs' = defs
  BY <1>1, <1>3 DEF DefInv
<1>4. CASE t # s /\ (lock = Free \/ reqs[s].pc \in Locked)
  <2>1. reqs[t].pc \notin Locked
    BY <1>4, Alone DEF TInv
  <2>2. QED
    BY <1>1, <1>4, <2>1 DEF Locked
<1>5. QED
  BY <1>2, <1>3, <1>4

LEMMA DefOneStep ==
  ASSUME TInv, NEW s \in Slots, InOneStep(s) PROVE DefInv'
<1>1. reqs' = reqs /\ \A t \in Slots : reqs[t].pc \notin Locked
  BY Alone DEF InOneStep, TInv
<1>2. QED
  BY <1>1 DEF DefInv, Locked, Updating

LEMMA DefStarts ==
  ASSUME TInv, DefInv, NEW s \in Slots, NEW u \in Users, NEW e \in Ids, Starts(s, u, e)
  PROVE  DefInv'
<1>1. CASE InOneStep(s)
  BY <1>1, DefOneStep
<1>2. CASE UpdateReads(s, u, e)
  <2>1. PICK K \in SUBSET defs[e].files, S \in SUBSET Names :
          Takes(s, At("storing", u, e, defs[e], S, K \cup S, edits + 1))
    BY <1>2 DEF UpdateReads
  <2> DEFINE q == At("storing", u, e, defs[e], S, K \cup S, edits + 1)
  <2>2. reqs' = [reqs EXCEPT ![s] = q] /\ lock = Free /\ defs' = defs
    BY <1>2, <2>1 DEF Takes, UpdateReads, store
  <2>3. q.pc = "storing" /\ q.e = e /\ q.def = defs[e]
    BY DEF At
  <2> HIDE DEF q
  <2>4. QED
    BY <2>2, <2>3, DefFollows
<1>3. CASE DeleteDef(s, u, e)
  <2> DEFINE q == At("deleting", u, e, NoDef, {}, {}, 0)
  <2>1. reqs' = [reqs EXCEPT ![s] = q] /\ lock = Free /\ defs' = [defs EXCEPT ![e] = NoDef]
    BY <1>3 DEF Takes, DeleteDef
  <2>2. q.pc = "deleting" /\ q.e = e /\ defs'[e] = NoDef
    BY <2>1 DEF At, TInv, Typed
  <2> HIDE DEF q
  <2>3. QED
    BY <2>1, <2>2, DefFollows DEF Updating
<1>4. CASE CopyReads(s, u, e)
  <2> DEFINE q == At("opening", u, e, defs[e], defs[e].files, {}, 0)
  <2>1. reqs' = [reqs EXCEPT ![s] = q] /\ defs' = defs
    BY <1>4 DEF CopyReads, store
  <2>2. q.pc = "opening"
    BY DEF At
  <2> HIDE DEF q
  <2>3. QED
    BY <2>1, <2>2, DefFollows DEF Updating
<1>5. QED
  BY <1>1, <1>2, <1>3, <1>4 DEF Starts, Create, CreateFails, Share, Unshare, OpenShared, ForgetShared,
     SetPublished

LEMMA DefContinues ==
  ASSUME TInv, DefInv, NEW s \in Slots, Continues(s)
  PROVE  DefInv'
<1> DEFINE q == reqs[s]
<1>1. reqs[s] \in Request
  BY DEF TInv, Typed
<1>2. Idle.pc \notin Updating /\ Idle.pc # "deleting"
  BY IdleType DEF Updating
<1>3. CASE UpdateReplaces(s)
  <2>1. PICK n \in reqs[s].up : reqs' = [reqs EXCEPT ![s] = [reqs[s] EXCEPT !.up = @ \ {n}]]
    BY <1>3 DEF UpdateReplaces
  <2> DEFINE r == [reqs[s] EXCEPT !.up = @ \ {n}]
  <2>2. r.pc = "storing" /\ r.e = reqs[s].e /\ r.def = reqs[s].def /\ reqs[s].pc = "storing" /\ defs' = defs
    BY <1>1, <1>3 DEF UpdateReplaces, Request
  <2>3. defs[reqs[s].e] = reqs[s].def
    BY <2>2 DEF DefInv, Updating
  <2> HIDE DEF r
  <2>4. reqs' = [reqs EXCEPT ![s] = r]
    BY <2>1 DEF r
  <2>5. QED
    BY <2>2, <2>3, <2>4, DefFollows
<1>4. CASE UpdatePrunes(s)
  BY <1>4 DEF UpdatePrunes, DefInv, Updating
<1>5. CASE UpdateWrites(s) \/ DeleteFiles(s)
  <2>1. reqs' = [reqs EXCEPT ![s] = Idle] /\ reqs[s].pc \in Locked
    BY <1>5 DEF UpdateWrites, DeleteFiles, Leaves, Locked, Updating
  <2>2. QED
    BY <2>1, <1>2, DefFollows
<1>6. CASE CopyOpens(s)
  <2>1. PICK n \in reqs[s].up :
          reqs' = [reqs EXCEPT ![s] =
             IF disk[reqs[s].e][n] = 0 THEN Idle
             ELSE [reqs[s] EXCEPT !.up = @ \ {n}, !.held[n] = disk[reqs[s].e][n]]]
    BY <1>6 DEF CopyOpens
  <2> DEFINE r == [reqs[s] EXCEPT !.up = @ \ {n}, !.held[n] = disk[reqs[s].e][n]]
             x == IF disk[reqs[s].e][n] = 0 THEN Idle ELSE r
  <2>2. r.pc = "opening" /\ defs' = defs
    BY <1>1, <1>6 DEF CopyOpens, Request, store
  <2> HIDE DEF r
  <2>3. x.pc \notin Updating /\ x.pc # "deleting"
    BY <2>2, <1>2 DEF Updating
  <2>4. reqs' = [reqs EXCEPT ![s] = x]
    BY <2>1 DEF r
  <2> HIDE DEF x
  <2>5. QED
    BY <2>2, <2>3, <2>4, DefFollows
<1>7. CASE CopyCreates(s)
  <2>1. lock = Free /\ (reqs' = [reqs EXCEPT ![s] = Idle] \/ \E e \in Ids : CopyOf(s, e))
    BY <1>7, CopyCases
  <2>2. ASSUME NEW e \in Ids, CopyOf(s, e) PROVE DefInv'
    <3> DEFINE r == At("stamping", reqs[s].user, e, Written(reqs[s].user, reqs[s].def.text, reqs[s].def.files), {}, {}, 0)
    <3>1. reqs' = [reqs EXCEPT ![s] = r] /\ r.pc = "stamping"
      BY <2>2 DEF CopyOf, At
    <3> HIDE DEF r
    <3>2. QED
      BY <2>1, <3>1, DefFollows DEF Updating
  <2>3. QED
    BY <2>1, <2>2, <1>2, DefFollows
<1>8. CASE CopyStamps(s)
  <2>1. lock = Free /\ reqs' = [reqs EXCEPT ![s] = Idle]
    BY <1>8 DEF CopyStamps
  <2>2. QED
    BY <2>1, <1>2, DefFollows
<1>9. CASE Fails(s) \/ CopyFails(s)
  <2>1. reqs' = [reqs EXCEPT ![s] = Idle] /\ defs' = defs
    BY <1>9, CopyFailsType DEF Fails, store
  <2>2. QED
    BY <2>1, <1>2, DefFollows
<1>10. QED
  BY <1>3, <1>4, <1>5, <1>6, <1>7, <1>8, <1>9 DEF Continues

LEMMA DefStep == TInv /\ DefInv /\ [Next]_vars => DefInv'
<1> SUFFICES ASSUME TInv, DefInv, [Next]_vars PROVE DefInv'
  OBVIOUS
<1>1. CASE UNCHANGED vars
  BY <1>1 DEF vars, store, DefInv, Updating
<1>2. CASE Next
  BY <1>2, DefStarts, DefContinues DEF Next
<1>3. QED
  BY <1>1, <1>2

-----------------------------------------------------------------------------
(* Links.                                                                  *)

TokenOf(e) == IF Exists(e) THEN defs[e].token ELSE 0
LinkInv == \A e \in Ids \ stamped : TokenOf(e) = given[e]

(* A step that writes one definition, and remembers the link it writes. *)
LEMMA LinkFollows ==
  ASSUME TInv, LinkInv, NEW e \in Ids, NEW d \in Definition \cup {NoDef}, NoDef \notin Definition,
         defs' = [defs EXCEPT ![e] = d], stamped \subseteq stamped',
         \A x \in Ids : x # e => given'[x] = given[x],
         e \notin stamped' => given'[e] = IF d # NoDef THEN d.token ELSE 0
  PROVE  LinkInv'
<1> SUFFICES ASSUME NEW x \in Ids \ stamped' PROVE TokenOf(x)' = given'[x]
  BY DEF LinkInv
<1>1. TokenOf(x)' = IF defs'[x] # NoDef THEN defs'[x].token ELSE 0
  BY DEF TokenOf, Exists
<1>2. defs'[x] = IF x = e THEN d ELSE defs[x]
  BY DEF TInv, Typed
<1>3. QED
  BY <1>1, <1>2 DEF LinkInv, TokenOf, Exists

LEMMA LinkSame ==
  ASSUME LinkInv, defs' = defs, given' = given, stamped' = stamped PROVE LinkInv'
  BY DEF LinkInv, TokenOf, Exists

LEMMA LinkStarts ==
  ASSUME TInv, LinkInv, NoDef \notin Definition, NEW s \in Slots, NEW u \in Users, NEW e \in Ids, Starts(s, u, e)
  PROVE  LinkInv'
<1>1. CASE Create(s, u, e)
  <2>1. PICK S \in SUBSET Names : defs' = [defs EXCEPT ![e] = Written(u, edits + 1, S)]
    BY <1>1 DEF Create
  <2>2. Written(u, edits + 1, S) \in Definition
    BY WrittenType DEF TInv, Typed
  <2>3. Written(u, edits + 1, S).token = 0 /\ given' = given /\ stamped' = stamped /\ ~Exists(e)
    BY <1>1 DEF Written, Create, past, Fresh
  <2>4. e \notin stamped => given[e] = 0
    BY <2>3 DEF LinkInv, TokenOf
  <2>5. Written(u, edits + 1, S) # NoDef
    BY <2>2
  <2>6. QED
    BY <2>1, <2>2, <2>3, <2>4, <2>5, LinkFollows
<1>2. CASE \/ CreateFails(s, u, e) \/ UpdateReads(s, u, e)
           \/ OpenShared(s, u, e) \/ ForgetShared(s, u, e) \/ CopyReads(s, u, e)
  BY <1>2, LinkSame, CreateFailsType DEF UpdateReads, OpenShared, ForgetShared, CopyReads, store, past
<1>3. CASE DeleteDef(s, u, e)
  <2>1. /\ defs' = [defs EXCEPT ![e] = NoDef] /\ given' = [given EXCEPT ![e] = 0] /\ stamped' = stamped
    BY <1>3 DEF DeleteDef
  <2>2. given'[e] = 0 /\ \A x \in Ids : x # e => given'[x] = given[x]
    BY <2>1 DEF TInv, Typed
  <2>3. QED
    BY <2>1, <2>2, LinkFollows
<1>4. ASSUME NEW rotate \in BOOLEAN, Share(s, u, e, rotate) PROVE LinkInv'
  <2>1. defs[e] \in Definition /\ Exists(e)
    BY <1>4 DEF Share, Owns, Exists, TInv, Typed
  <2>2. CASE /\ tokens' = tokens + 1
             /\ defs' = [defs EXCEPT ![e] = [defs[e] EXCEPT !.token = tokens + 1]]
             /\ given' = [given EXCEPT ![e] = tokens + 1]
    <3> DEFINE d == [defs[e] EXCEPT !.token = tokens + 1]
    <3>1. d.token = tokens + 1
      BY <2>1 DEF Definition
    <3>2. d \in Definition
      <4>1. tokens + 1 \in Nat
        BY DEF TInv, Typed
      <4>2. QED
        BY <2>1, <4>1, TokenType
    <3>3. given'[e] = tokens + 1 /\ \A x \in Ids : x # e => given'[x] = given[x]
      BY <2>2 DEF TInv, Typed
    <3>4. stamped' = stamped /\ d # NoDef
      BY <1>4, <3>2 DEF Share
    <3>5. defs' = [defs EXCEPT ![e] = d]
      BY <2>2
    <3> HIDE DEF d
    <3>6. QED
      BY <3>1, <3>2, <3>3, <3>4, <3>5, LinkFollows
  <2>3. CASE given' = [given EXCEPT ![e] = defs[e].token] /\ UNCHANGED <<defs, tokens>>
    <3>1. stamped' = stamped /\ defs' = defs
      BY <1>4, <2>3 DEF Share
    <3>2. \A x \in Ids : given'[x] = IF x = e THEN defs[e].token ELSE given[x]
      BY <2>3 DEF TInv, Typed
    <3>3. QED
      BY <3>1, <3>2, <2>1 DEF LinkInv, TokenOf, Exists
  <2>4. QED
    BY <1>4, <2>2, <2>3 DEF Share
<1>5. CASE Unshare(s, u, e)
  <2>1. defs[e] \in Definition
    BY <1>5 DEF Unshare, Owns, Exists, TInv, Typed
  <2> DEFINE d == [defs[e] EXCEPT !.token = 0]
  <2>2. d.token = 0
    BY <2>1 DEF Definition
  <2>3. d \in Definition
    BY <2>1, TokenType
  <2>4. defs' = [defs EXCEPT ![e] = d] /\ given' = [given EXCEPT ![e] = 0] /\ stamped' = stamped
    BY <1>5 DEF Unshare
  <2> HIDE DEF d
  <2>5. given'[e] = 0 /\ \A x \in Ids : x # e => given'[x] = given[x]
    BY <2>4 DEF TInv, Typed
  <2>6. QED
    BY <2>2, <2>3, <2>4, <2>5, LinkFollows
<1>6. ASSUME NEW published \in BOOLEAN, SetPublished(s, u, e, published) PROVE LinkInv'
  <2>1. defs[e] \in Definition /\ Exists(e)
    BY <1>6 DEF SetPublished, CanView, Exists, TInv, Typed
  <2> DEFINE d == [defs[e] EXCEPT !.published = published]
  <2>2. d.token = defs[e].token /\ d \in Definition
    BY <2>1 DEF Definition
  <2>3. defs' = [defs EXCEPT ![e] = d] /\ given' = given /\ stamped' = stamped
    BY <1>6 DEF SetPublished
  <2>4. e \notin stamped => given[e] = defs[e].token
    BY <2>1 DEF LinkInv, TokenOf
  <2> HIDE DEF d
  <2>5. QED
    BY <2>2, <2>3, <2>4, LinkFollows
<1>7. QED
  BY <1>1, <1>2, <1>3, <1>4, <1>5, <1>6 DEF Starts

LEMMA LinkContinues ==
  ASSUME TInv, DefInv, LinkInv, NoDef \notin Definition, NEW s \in Slots, Continues(s)
  PROVE  LinkInv'
<1>1. CASE \/ UpdateReplaces(s) \/ UpdatePrunes(s) \/ DeleteFiles(s) \/ CopyOpens(s)
           \/ Fails(s) \/ CopyFails(s)
  BY <1>1, LinkSame, CopyFailsType DEF UpdateReplaces, UpdatePrunes, DeleteFiles, CopyOpens, Fails, store, past
<1>2. CASE UpdateWrites(s)
  <2>1. /\ reqs[s].pc = "storing" /\ given' = given /\ stamped' = stamped
        /\ defs' = [defs EXCEPT ![reqs[s].e] = EditedDef(reqs[s])]
    BY <1>2 DEF UpdateWrites
  <2>2. reqs[s] \in Request /\ reqs[s].e \in Ids /\ Asked(reqs[s])
    BY <2>1, Standing
  <2>3. reqs[s].def \in Definition /\ defs[reqs[s].e] = reqs[s].def
    BY <2>1, <2>2 DEF Asked, Updating, DefInv
  <2>4. EditedDef(reqs[s]) \in Definition
    BY <2>2, <2>3, EditedType
  <2>5. EditedDef(reqs[s]).token = reqs[s].def.token
    BY <2>3 DEF EditedDef, Definition
  <2>6. reqs[s].e \notin stamped => given[reqs[s].e] = reqs[s].def.token
    BY <2>2, <2>3 DEF LinkInv, TokenOf, Exists
  <2>7. QED
    BY <2>1, <2>2, <2>4, <2>5, <2>6, LinkFollows
<1>3. CASE CopyCreates(s)
  <2>1. reqs[s].pc = "opening" /\ given' = given /\ stamped' = stamped
    BY <1>3, CopyCases DEF past
  <2>2. reqs[s] \in Request /\ Asked(reqs[s]) /\ reqs[s].user \in Users
    BY <2>1, Standing
  <2>3. ASSUME NEW e \in Ids, CopyOf(s, e) PROVE LinkInv'
    <3> DEFINE d == Written(reqs[s].user, reqs[s].def.text, reqs[s].def.files)
    <3>1. reqs[s].def \in Definition
      BY <2>1, <2>2 DEF Asked
    <3>2. d \in Definition /\ d.token = 0
      BY <2>2, <3>1 DEF Definition, Written
    <3>3. ~Exists(e) /\ defs' = [defs EXCEPT ![e] = d]
      BY <2>3 DEF CopyOf, Fresh
    <3>4. e \notin stamped => given[e] = 0
      BY <3>3 DEF LinkInv, TokenOf
    <3> HIDE DEF d
    <3>5. QED
      BY <2>1, <3>2, <3>3, <3>4, LinkFollows
  <2>4. CASE UNCHANGED <<defs, disk>>
    BY <2>1, <2>4, LinkSame
  <2>5. QED
    BY <1>3, <2>3, <2>4, CopyCases
<1>4. CASE CopyStamps(s)
  <2>1. /\ reqs[s].pc = "stamping" /\ given' = given
        /\ defs' = [defs EXCEPT ![reqs[s].e] = reqs[s].def]
        /\ stamped' = IF defs[reqs[s].e] = reqs[s].def THEN stamped ELSE stamped \cup {reqs[s].e}
    BY <1>4 DEF CopyStamps
  <2>2. reqs[s].e \in Ids /\ Asked(reqs[s])
    BY <2>1, Standing
  <2>3. reqs[s].def \in Definition
    BY <2>1, <2>2 DEF Asked
  <2>4. reqs[s].e \notin stamped' => given[reqs[s].e] = reqs[s].def.token
    BY <2>1, <2>2, <2>3 DEF LinkInv, TokenOf, Exists
  <2>5. QED
    BY <2>1, <2>2, <2>3, <2>4, LinkFollows
<1>5. QED
  BY <1>1, <1>2, <1>3, <1>4 DEF Continues

LEMMA LinkStep == NoDef \notin Definition /\ TInv /\ DefInv /\ LinkInv /\ [Next]_vars => LinkInv'
<1> SUFFICES ASSUME NoDef \notin Definition, TInv, DefInv, LinkInv, [Next]_vars PROVE LinkInv'
  OBVIOUS
<1>1. CASE UNCHANGED vars
  BY <1>1, LinkSame DEF vars, store, past
<1>2. CASE Next
  BY <1>2, LinkStarts, LinkContinues DEF Next
<1>3. QED
  BY <1>1, <1>2

(* The link an owner holds is the one that opens his example: no edit, copy *)
(* or publication brings a revoked link back or loses one, as long as no    *)
(* copy wrote an older definition over it.                                  *)
THEOREM LinksKept == Spec => []LinkKept
<1> DEFINE I == TInv /\ DefInv /\ LinkInv
<1>1. Init => I
  <2> SUFFICES ASSUME Init PROVE TInv /\ DefInv /\ LinkInv
    OBVIOUS
  <2>1. DefInv
    BY IdleType DEF Init, DefInv, Updating
  <2>2. LinkInv
    BY DEF Init, LinkInv, TokenOf, Exists
  <2>3. TInv
    BY InitTyped DEF TInv
  <2>4. QED
    BY <2>1, <2>2, <2>3
<1>2. I /\ [Next]_vars => I'
  BY TypeStep, DefStep, LinkStep, ExampleConstants
<1>3. I => LinkKept
  BY DEF LinkInv, LinkKept, TokenOf
<1>4. QED
  <2> HIDE DEF I
  <2>1. QED
    BY <1>1, <1>2, <1>3, PTL DEF Spec

-----------------------------------------------------------------------------
(* Files and what everyone sees.                                           *)

FilesOf(bytes) == {n \in Names : bytes[n] # 0}

(* A definition with its files, and published as approved. *)
Sound(def, bytes, a) ==
    def # NoDef => /\ def.files = FilesOf(bytes)
                   /\ def.published => a = <<def.text, bytes>>

(* An edit has, or will have, the files it keeps. *)
Ready(q, bytes) ==
    q.pc = "storing" => q.at > 0 /\ \A n \in q.keep : n \in q.up \/ bytes[n] # 0

(* A copy holds what it has opened. *)
Opened(q) == q.pc = "opening" => q.up \subseteq q.def.files /\ FilesOf(q.held) = q.def.files \ q.up

InEdit(s, e) == reqs[s].pc \in Updating /\ reqs[s].e = e

RestInv == faults = 0 =>
    /\ \A e \in Ids \ stamped : (\A s \in Slots : ~InEdit(s, e)) => Sound(defs[e], disk[e], approved[e])
    /\ \A s \in Slots, e \in Ids \ stamped : InEdit(s, e) => Ready(reqs[s], disk[e])

OpenInv == \A s \in Slots : Opened(reqs[s])

(* A step of a thread that concerns one example. *)
LEMMA RestFollows ==
  ASSUME TInv, RestInv, NEW s \in Slots, NEW q, NEW e \in Ids,
         reqs' = [reqs EXCEPT ![s] = q], faults' = faults, stamped \subseteq stamped',
         \A x \in Ids : x # e => defs'[x] = defs[x] /\ disk'[x] = disk[x] /\ approved'[x] = approved[x],
         \/ lock = Free
         \/ reqs[s].pc \in Locked /\ reqs[s].e = e
         \/ reqs[s].pc \notin Locked /\ disk' = disk,
         \/ q.pc \in Updating /\ q.e = e /\ (faults = 0 /\ e \notin stamped' => Ready(q, disk'[e]))
         \/ /\ q.pc \notin Updating
            /\ faults = 0 /\ e \notin stamped' /\ (\A t \in Slots \ {s} : ~InEdit(t, e))
                 => Sound(defs'[e], disk'[e], approved'[e])
  PROVE  RestInv'
<1> USE DEF InEdit
<1> SUFFICES ASSUME faults = 0 PROVE
        /\ \A x \in Ids \ stamped' : (\A t \in Slots : ~InEdit(t, x)') => Sound(defs'[x], disk'[x], approved'[x])
        /\ \A t \in Slots, x \in Ids \ stamped' : InEdit(t, x)' => Ready(reqs'[t], disk'[x])
  BY DEF RestInv, Sound, Ready, FilesOf, Updating
<1>1. \A t \in Slots : reqs'[t] = IF t = s THEN q ELSE reqs[t]
  BY DEF TInv, Typed
<1>2. \A t \in Slots : reqs'[t].pc \in Updating /\ reqs'[t].e = e <=> InEdit(t, e)'
  BY DEF Updating
<1>3. reqs[s].pc \in Updating => reqs[s].e = e
  BY Alone DEF TInv, Locked
<1>4. ASSUME NEW x \in Ids \ stamped', \A t \in Slots : ~InEdit(t, x)'
      PROVE  Sound(defs'[x], disk'[x], approved'[x])
  <2>1. \A t \in Slots : ~(reqs'[t].pc \in Updating /\ reqs'[t].e = x)
    BY <1>4 DEF Updating
  <2>2. CASE x = e
    <3>1. \A t \in Slots \ {s} : ~InEdit(t, e)
      BY <1>1, <2>1, <2>2
    <3>2. ~(q.pc \in Updating /\ q.e = e)
      BY <1>1, <2>1, <2>2
    <3>3. QED
      BY <1>4, <2>2, <3>1, <3>2
  <2>3. CASE x # e
    <3>1. \A t \in Slots : ~InEdit(t, x)
      BY <1>1, <1>3, <2>1, <2>3
    <3>2. Sound(defs[x], disk[x], approved[x])
      BY <1>4, <3>1 DEF RestInv
    <3>3. QED
      BY <2>3, <3>2
  <2>4. QED
    BY <2>2, <2>3
<1>5. ASSUME NEW t \in Slots, NEW x \in Ids \ stamped', InEdit(t, x)'
      PROVE  Ready(reqs'[t], disk'[x])
  <2>1. reqs'[t].pc \in Updating /\ reqs'[t].e = x
    BY <1>5 DEF Updating
  <2>2. CASE t = s
    BY <1>1, <2>1, <2>2
  <2>3. CASE t # s
    <3>1. reqs[t].pc \in Updating /\ reqs[t].e = x /\ reqs'[t] = reqs[t]
      BY <1>1, <2>1, <2>3
    <3>2. reqs[t].pc \in Locked
      BY <3>1 DEF Locked
    <3>3. disk' = disk
      BY <2>3, <3>2, Alone DEF TInv
    <3>4. Ready(reqs[t], disk[x])
      BY <3>1 DEF RestInv
    <3>5. QED
      BY <3>1, <3>3, <3>4
  <2>4. QED
    BY <2>2, <2>3
<1>6. QED
  BY <1>4, <1>5

(* An operation in one step leaves its example sound. *)
LEMMA RestOneStep ==
  ASSUME TInv, RestInv, NEW s \in Slots, NEW e \in Ids, InOneStep(s), faults' = faults, stamped' = stamped,
         \A x \in Ids : x # e => defs'[x] = defs[x] /\ disk'[x] = disk[x] /\ approved'[x] = approved[x],
         (faults = 0 /\ e \notin stamped => Sound(defs[e], disk[e], approved[e]))
           => (faults = 0 /\ e \notin stamped => Sound(defs'[e], disk'[e], approved'[e]))
  PROVE  RestInv'
<1>1. lock = Free /\ reqs' = [reqs EXCEPT ![s] = reqs[s]] /\ reqs[s].pc \notin Updating
  BY DEF InOneStep, TInv, Typed, Updating
<1>2. \A t \in Slots : ~InEdit(t, e)
  BY <1>1, Alone DEF InEdit, TInv, Locked
<1>3. faults = 0 /\ e \notin stamped => Sound(defs[e], disk[e], approved[e])
  BY <1>2 DEF RestInv
<1>4. faults = 0 /\ e \notin stamped => Sound(defs'[e], disk'[e], approved'[e])
  BY <1>3
<1>5. QED
  BY <1>1, <1>4, RestFollows

LEMMA RestCreate ==
  ASSUME TInv, RestInv, NEW s \in Slots, NEW u \in Users, NEW e \in Ids, Create(s, u, e) PROVE RestInv'
<1>1. PICK S \in SUBSET Names :
          /\ disk' = [disk EXCEPT ![e] = [n \in Names |-> IF n \in S THEN edits + 1 ELSE 0]]
          /\ defs' = [defs EXCEPT ![e] = Written(u, edits + 1, S)]
  BY DEF Create
<1>2. edits \in Nat /\ faults' = faults /\ stamped' = stamped /\ approved' = approved /\ InOneStep(s)
  BY DEF Create, past, TInv, Typed
<1>3. defs'[e] = Written(u, edits + 1, S) /\ disk'[e] = [n \in Names |-> IF n \in S THEN edits + 1 ELSE 0]
  BY <1>1 DEF TInv, Typed
<1>4. FilesOf(disk'[e]) = S
  BY <1>2, <1>3 DEF FilesOf
<1>5. Sound(defs'[e], disk'[e], approved'[e])
  BY <1>3, <1>4 DEF Sound, Written
<1>6. \A x \in Ids : x # e => defs'[x] = defs[x] /\ disk'[x] = disk[x] /\ approved'[x] = approved[x]
  BY <1>1, <1>2 DEF TInv, Typed
<1>7. QED
  BY <1>2, <1>5, <1>6, RestOneStep

LEMMA RestUpdateReads ==
  ASSUME TInv, RestInv, NEW s \in Slots, NEW u \in Users, NEW e \in Ids, UpdateReads(s, u, e) PROVE RestInv'
<1>1. PICK K \in SUBSET defs[e].files, S \in SUBSET Names :
        Takes(s, At("storing", u, e, defs[e], S, K \cup S, edits + 1))
  BY DEF UpdateReads
<1> DEFINE q == At("storing", u, e, defs[e], S, K \cup S, edits + 1)
<1>2. reqs' = [reqs EXCEPT ![s] = q] /\ lock = Free
  BY <1>1 DEF Takes
<1>3. defs' = defs /\ disk' = disk /\ faults' = faults /\ approved' = approved /\ stamped' = stamped
  BY DEF UpdateReads, store, past
<1>4. q.pc = "storing" /\ q.e = e /\ q.up = S /\ q.keep = K \cup S /\ q.at = edits + 1 /\ edits \in Nat
  BY DEF At, TInv, Typed
<1> HIDE DEF q
<1>5. ASSUME faults = 0, e \notin stamped PROVE Ready(q, disk'[e])
  <2>1. \A t \in Slots : ~InEdit(t, e)
    BY <1>2, Alone DEF InEdit, TInv, Locked
  <2>2. Sound(defs[e], disk[e], approved[e]) /\ defs[e] # NoDef
    BY <1>5, <2>1 DEF RestInv, UpdateReads, Owns, Exists
  <2>3. defs[e].files = FilesOf(disk[e])
    BY <2>2 DEF Sound
  <2>4. \A n \in q.keep : n \in q.up \/ disk[e][n] # 0
    BY <1>4, <2>3 DEF FilesOf
  <2>5. QED
    BY <1>3, <1>4, <2>4 DEF Ready
<1>6. q.pc \in Updating
  BY <1>4 DEF Updating
<1>7. QED
  BY <1>2, <1>3, <1>4, <1>5, <1>6, RestFollows

LEMMA RestDeleteDef ==
  ASSUME TInv, RestInv, NEW s \in Slots, NEW u \in Users, NEW e \in Ids, DeleteDef(s, u, e) PROVE RestInv'
<1> DEFINE q == At("deleting", u, e, NoDef, {}, {}, 0)
<1>1. /\ reqs' = [reqs EXCEPT ![s] = q] /\ lock = Free /\ defs' = [defs EXCEPT ![e] = NoDef]
      /\ approved' = [approved EXCEPT ![e] = NoDef]
      /\ disk' = disk /\ faults' = faults /\ stamped' = stamped
  BY DEF DeleteDef, Takes, counts
<1>2. q.pc \notin Updating
  BY DEF At, Updating
<1> HIDE DEF q
<1>3. defs'[e] = NoDef
  BY <1>1 DEF TInv, Typed
<1>4. Sound(defs'[e], disk'[e], approved'[e])
  BY <1>3 DEF Sound
<1>5. \A x \in Ids : x # e => defs'[x] = defs[x] /\ disk'[x] = disk[x] /\ approved'[x] = approved[x]
  BY <1>1 DEF TInv, Typed
<1>6. QED
  BY <1>1, <1>2, <1>4, <1>5, RestFollows

(* Sharing changes a definition's token and nothing that matters here. *)
LEMMA RestToken ==
  ASSUME TInv, RestInv, NEW s \in Slots, NEW e \in Ids, NEW n \in Nat, InOneStep(s), defs[e] \in Definition,
         defs' = [defs EXCEPT ![e] = [defs[e] EXCEPT !.token = n]],
         UNCHANGED <<disk, faults, approved, stamped>>
  PROVE  RestInv'
<1> DEFINE d == [defs[e] EXCEPT !.token = n]
<1>1. d.text = defs[e].text /\ d.files = defs[e].files /\ d.published = defs[e].published
  BY DEF Definition
<1>2. defs'[e] = d /\ \A x \in Ids : x # e => defs'[x] = defs[x]
  BY DEF TInv, Typed
<1> HIDE DEF d
<1>3. defs[e] # NoDef
  BY ExampleConstants
<1>4. Sound(defs[e], disk[e], approved[e]) => Sound(defs'[e], disk'[e], approved'[e])
  BY <1>1, <1>2, <1>3 DEF Sound
<1>5. QED
  BY <1>2, <1>4, RestOneStep

LEMMA RestShare ==
  ASSUME TInv, RestInv, NEW s \in Slots, NEW u \in Users, NEW e \in Ids,
         (\E rotate \in BOOLEAN : Share(s, u, e, rotate)) \/ Unshare(s, u, e)
  PROVE  RestInv'
<1>1. InOneStep(s) /\ defs[e] \in Definition /\ UNCHANGED <<disk, faults, approved, stamped>>
  BY DEF Share, Unshare, Owns, Exists, TInv, Typed, counts
<1>2. CASE defs' = [defs EXCEPT ![e] = [defs[e] EXCEPT !.token = tokens + 1]]
  <2>1. tokens + 1 \in Nat
    BY DEF TInv, Typed
  <2>2. QED
    BY <1>1, <1>2, <2>1, RestToken
<1>3. CASE defs' = defs
  BY <1>1, <1>3, RestOneStep
<1>4. CASE defs' = [defs EXCEPT ![e] = [defs[e] EXCEPT !.token = 0]]
  BY <1>1, <1>4, RestToken
<1>5. QED
  BY <1>2, <1>3, <1>4 DEF Share, Unshare

LEMMA RestLinks ==
  ASSUME TInv, RestInv, NEW s \in Slots, NEW u \in Users, NEW e \in Ids,
         OpenShared(s, u, e) \/ ForgetShared(s, u, e)
  PROVE  RestInv'
<1>1. InOneStep(s) /\ UNCHANGED <<defs, disk, faults, approved, stamped>>
  BY DEF OpenShared, ForgetShared, counts, past
<1>2. QED
  BY <1>1, RestOneStep

LEMMA RestSetPublished ==
  ASSUME TInv, RestInv, NEW s \in Slots, NEW u \in Users, NEW e \in Ids, NEW published \in BOOLEAN,
         SetPublished(s, u, e, published)
  PROVE  RestInv'
<1> DEFINE d == [defs[e] EXCEPT !.published = published]
<1>1. InOneStep(s) /\ (u \in Admins \/ ~published) /\ Exists(e) /\ faults' = faults
  BY DEF SetPublished, CanView, counts
<1>2. defs[e] \in Definition
  BY <1>1 DEF Exists, TInv, Typed
<1>3. d.files = defs[e].files /\ d.published = published /\ d.text = defs[e].text
  BY <1>2 DEF Definition
<1>4. defs'[e] = d /\ \A x \in Ids : x # e => defs'[x] = defs[x]
  BY DEF TInv, Typed, SetPublished
<1> HIDE DEF d
<1>5. approved' = [approved EXCEPT ![e] = IF ~published THEN NoDef
                     ELSE IF u \in Admins THEN <<d.text, disk[e]>> ELSE @]
  <2>1. Approves(e, d, disk[e], u)
    BY <1>4 DEF SetPublished
  <2>2. QED
    BY <2>1, <1>3 DEF Approves
<1>6. published => approved'[e] = <<d.text, disk[e]>>
  BY <1>1, <1>5 DEF TInv, Typed
<1>7. \A x \in Ids : x # e => approved'[x] = approved[x]
  BY <1>5 DEF TInv, Typed
<1>8. disk' = disk /\ stamped' = stamped /\ defs[e] # NoDef
  BY <1>1 DEF SetPublished, Exists
<1>9. Sound(defs[e], disk[e], approved[e]) => Sound(defs'[e], disk'[e], approved'[e])
  BY <1>3, <1>4, <1>6, <1>8 DEF Sound
<1>10. QED
  BY <1>1, <1>4, <1>7, <1>8, <1>9, RestOneStep

LEMMA RestCopyReads ==
  ASSUME TInv, RestInv, NEW s \in Slots, NEW u \in Users, NEW e \in Ids, CopyReads(s, u, e) PROVE RestInv'
<1> DEFINE q == At("opening", u, e, defs[e], defs[e].files, {}, 0)
<1>1. reqs' = [reqs EXCEPT ![s] = q] /\ reqs[s].pc \notin Locked /\ UNCHANGED <<defs, disk, faults, approved, stamped>>
  BY DEF CopyReads, Locked, Updating, store, counts, past
<1>2. q.pc \notin Updating
  BY DEF At, Updating
<1> HIDE DEF q
<1>3. ~InEdit(s, e)
  BY <1>1 DEF InEdit, Locked
<1>4. (\A t \in Slots \ {s} : ~InEdit(t, e)) /\ faults = 0 /\ e \notin stamped'
        => Sound(defs'[e], disk'[e], approved'[e])
  BY <1>1, <1>3 DEF RestInv
<1>5. QED
  BY <1>1, <1>2, <1>4, RestFollows

LEMMA RestUpdateReplaces ==
  ASSUME TInv, RestInv, NEW s \in Slots, UpdateReplaces(s) PROVE RestInv'
<1>1. PICK n \in reqs[s].up :
          /\ disk' = [disk EXCEPT ![reqs[s].e][n] = reqs[s].at]
          /\ reqs' = [reqs EXCEPT ![s].up = @ \ {n}]
  BY DEF UpdateReplaces
<1>2. reqs[s].pc = "storing" /\ UNCHANGED <<defs, faults, approved, stamped>>
  BY DEF UpdateReplaces, counts, past
<1> DEFINE e == reqs[s].e
           q == [reqs[s] EXCEPT !.up = @ \ {n}]
<1>3. reqs[s] \in Request /\ e \in Ids /\ n \in Names /\ disk[e] \in Bytes
  BY <1>2, Standing DEF Request
<1>4. /\ q.pc = "storing" /\ q.e = e /\ q.at = reqs[s].at /\ q.keep = reqs[s].keep
      /\ q.up = reqs[s].up \ {n} /\ q.keep \in SUBSET Names
  BY <1>2, <1>3 DEF Request
<1>5. reqs' = [reqs EXCEPT ![s] = q]
  BY <1>1
<1>6. /\ \A x \in Ids : x # e => disk'[x] = disk[x]
      /\ \A m \in Names : disk'[e][m] = IF m = n THEN reqs[s].at ELSE disk[e][m]
  BY <1>1, <1>3 DEF TInv, Typed, Bytes
<1> HIDE DEF q
<1>7. reqs[s].pc \in Locked /\ reqs[s].pc \in Updating /\ q.pc \in Updating
  BY <1>2, <1>4 DEF Locked, Updating
<1>8. ASSUME faults = 0, e \notin stamped' PROVE Ready(q, disk'[e])
  <2>1. Ready(reqs[s], disk[e])
    BY <1>2, <1>3, <1>7, <1>8 DEF RestInv, InEdit
  <2>2. reqs[s].at > 0 /\ \A m \in q.keep : m \in reqs[s].up \/ disk[e][m] # 0
    BY <2>1, <1>2, <1>4 DEF Ready
  <2>3. \A m \in q.keep : m \in q.up \/ disk'[e][m] # 0
    BY <2>2, <1>4, <1>6
  <2>4. QED
    BY <2>2, <2>3, <1>4 DEF Ready
<1>9. QED
  <2> HIDE DEF e
  <2>1. reqs[s].e = e
    BY DEF e
  <2>2. QED
    BY <2>1, <1>2, <1>3, <1>4, <1>5, <1>6, <1>7, <1>8, RestFollows

LEMMA RestUpdatePrunes ==
  ASSUME TInv, RestInv, NEW s \in Slots, UpdatePrunes(s) PROVE RestInv'
<1> DEFINE e == reqs[s].e
           q == reqs[s]
<1>1. /\ q.pc = "storing" /\ UNCHANGED <<defs, faults, approved, stamped, reqs>> /\ q.up = {}
      /\ \E n \in Spare(q) : disk' = [disk EXCEPT ![e][n] = 0]
  BY DEF UpdatePrunes, counts, past
<1>2. q \in Request /\ e \in Ids /\ disk[e] \in Bytes
  BY <1>1, Standing
<1>3. reqs' = [reqs EXCEPT ![s] = q]
  BY <1>1 DEF TInv, Typed
<1>4. PICK n \in Spare(q) : disk' = [disk EXCEPT ![e][n] = 0]
  BY <1>1
<1>5. n \in Names /\ n \notin q.keep /\ q.keep \in SUBSET Names
  BY <1>2 DEF Spare, Request
<1>6. /\ \A x \in Ids : x # e => disk'[x] = disk[x]
      /\ \A m \in Names : m # n => disk'[e][m] = disk[e][m]
  BY <1>2, <1>4, <1>5 DEF TInv, Typed, Bytes
<1>7. q.pc \in Locked /\ q.pc \in Updating
  BY <1>1 DEF Locked, Updating
<1>8. ASSUME faults = 0, e \notin stamped' PROVE Ready(q, disk'[e])
  <2>1. Ready(q, disk[e])
    BY <1>1, <1>2, <1>7, <1>8 DEF RestInv, InEdit
  <2>2. q.at > 0 /\ \A m \in q.keep : m \in q.up \/ disk'[e][m] # 0
    BY <2>1, <1>1, <1>5, <1>6 DEF Ready
  <2>3. QED
    BY <2>2 DEF Ready
<1>9. QED
  <2>1. q.e = e /\ reqs[s] = q
    OBVIOUS
  <2>2. \A x \in Ids : x # e => defs'[x] = defs[x] /\ disk'[x] = disk[x] /\ approved'[x] = approved[x]
    BY <1>1, <1>6
  <2>3. faults' = faults /\ stamped \subseteq stamped'
    BY <1>1
  <2> HIDE DEF e, q
  <2>4. QED
    BY <2>1, <2>2, <2>3, <1>2, <1>3, <1>7, <1>8, RestFollows

(* A thread that is done with an example leaves it sound. *)
LEMMA RestDone ==
  ASSUME TInv, RestInv, NEW s \in Slots, reqs[s].pc # "idle", reqs' = [reqs EXCEPT ![s] = Idle],
         faults' = faults, stamped \subseteq stamped',
         \A x \in Ids : x # reqs[s].e => defs'[x] = defs[x] /\ disk'[x] = disk[x] /\ approved'[x] = approved[x],
         lock = Free \/ reqs[s].pc \in Locked \/ disk' = disk,
         faults = 0 /\ reqs[s].e \notin stamped' /\ (\A t \in Slots \ {s} : ~InEdit(t, reqs[s].e))
           => Sound(defs'[reqs[s].e], disk'[reqs[s].e], approved'[reqs[s].e])
  PROVE  RestInv'
<1>1. reqs[s].e \in Ids
  BY Standing
<1>2. Idle.pc \notin Updating
  BY IdleType DEF Updating
<1>3. QED
  BY <1>1, <1>2, RestFollows

LEMMA RestUpdateWrites ==
  ASSUME TInv, DefInv, RestInv, NEW s \in Slots, UpdateWrites(s) PROVE RestInv'
<1> DEFINE e == reqs[s].e
           d == EditedDef(reqs[s])
<1>1. /\ reqs[s].pc = "storing" /\ UNCHANGED <<disk, faults, stamped>>
      /\ reqs[s].up = {} /\ Spare(reqs[s]) = {}
      /\ defs' = [defs EXCEPT ![e] = d] /\ Approves(e, d, disk[e], reqs[s].user)
      /\ reqs' = [reqs EXCEPT ![s] = Idle]
  BY DEF UpdateWrites, Leaves, counts
<1>2. reqs[s] \in Request /\ e \in Ids /\ Asked(reqs[s])
  BY <1>1, Standing
<1>3. reqs[s].def \in Definition
  BY <1>1, <1>2 DEF Asked, Updating
<1>4. /\ d.text = reqs[s].at /\ d.files = reqs[s].keep
      /\ d.published = (reqs[s].def.published /\ reqs[s].user \in Admins)
  BY <1>3 DEF EditedDef, Definition
<1> HIDE DEF d
<1>5. defs'[e] = d /\ \A x \in Ids : x # e => defs'[x] = defs[x] /\ disk'[x] = disk[x]
  BY <1>1, <1>2 DEF TInv, Typed
<1>6. /\ \A x \in Ids : x # e => approved'[x] = approved[x]
      /\ d.published => approved'[e] = <<d.text, disk[e]>>
  BY <1>1, <1>2, <1>4 DEF Approves, TInv, Typed
<1>7. ASSUME faults = 0, e \notin stamped' PROVE Sound(defs'[e], disk'[e], approved'[e])
  <2>1. Ready(reqs[s], disk[e])
    BY <1>1, <1>2, <1>7 DEF RestInv, InEdit, Updating
  <2>2. reqs[s].keep = FilesOf(disk[e])
    <3>1. reqs[s].keep \subseteq FilesOf(disk[e])
      BY <2>1, <1>1, <1>2 DEF Ready, Request, FilesOf
    <3>2. FilesOf(disk[e]) \subseteq reqs[s].keep
      BY <1>1 DEF Spare, FilesOf
    <3>3. QED
      BY <3>1, <3>2
  <2>3. QED
    BY <2>2, <1>1, <1>4, <1>5, <1>6 DEF Sound
<1>8. reqs[s].pc \in Locked /\ reqs[s].pc # "idle"
  BY <1>1 DEF Locked, Updating
<1>9. QED
  BY <1>1, <1>5, <1>6, <1>7, <1>8, RestDone

LEMMA RestDeleteFiles ==
  ASSUME TInv, DefInv, RestInv, NEW s \in Slots, DeleteFiles(s) PROVE RestInv'
<1>1. /\ reqs[s].pc = "deleting" /\ UNCHANGED <<defs, faults, stamped, approved>>
      /\ disk' = [disk EXCEPT ![reqs[s].e] = NoBytes] /\ reqs' = [reqs EXCEPT ![s] = Idle]
  BY DEF DeleteFiles, Leaves, counts, past
<1>2. \A x \in Ids : x # reqs[s].e => disk'[x] = disk[x]
  BY <1>1 DEF TInv, Typed
<1>3. defs'[reqs[s].e] = NoDef
  BY <1>1 DEF DefInv
<1>4. Sound(defs'[reqs[s].e], disk'[reqs[s].e], approved'[reqs[s].e])
  BY <1>3 DEF Sound
<1>5. reqs[s].pc \in Locked /\ reqs[s].pc # "idle"
  BY <1>1 DEF Locked
<1>6. QED
  BY <1>1, <1>2, <1>4, <1>5, RestDone

(* What a copy does when it opens a file: it goes on, or gives up. *)
Opening(s, n) ==
    IF disk[reqs[s].e][n] = 0 THEN Idle
    ELSE [reqs[s] EXCEPT !.up = @ \ {n}, !.held[n] = disk[reqs[s].e][n]]

LEMMA CopyOpensTo ==
  ASSUME TInv, NEW s \in Slots, CopyOpens(s)
  PROVE  /\ reqs[s].pc = "opening" /\ UNCHANGED <<store, lock, counts, past>>
         /\ \E n \in reqs[s].up : reqs' = [reqs EXCEPT ![s] = Opening(s, n)]
  BY DEF CopyOpens, Opening

LEMMA OpeningKeeps ==
  ASSUME TInv, NEW s \in Slots, reqs[s].pc = "opening", Opened(reqs[s]), NEW n \in reqs[s].up
  PROVE  Opened(Opening(s, n)) /\ Opening(s, n).pc \notin Updating
<1>1. Opened(Idle) /\ Idle.pc \notin Updating
  BY IdleType DEF Opened, Updating
<1>2. CASE disk[reqs[s].e][n] = 0
  BY <1>1, <1>2 DEF Opening
<1>3. CASE disk[reqs[s].e][n] # 0
  <2> DEFINE q == [reqs[s] EXCEPT !.up = @ \ {n}, !.held[n] = disk[reqs[s].e][n]]
  <2>1. reqs[s] \in Request /\ disk[reqs[s].e] \in Bytes /\ n \in Names
    BY Standing DEF Request
  <2>2. /\ q.pc = "opening" /\ q.up = reqs[s].up \ {n} /\ q.def = reqs[s].def
        /\ q.held = [reqs[s].held EXCEPT ![n] = disk[reqs[s].e][n]] /\ reqs[s].held \in Bytes
    BY <2>1 DEF Request
  <2>3. reqs[s].up \subseteq reqs[s].def.files /\ FilesOf(reqs[s].held) = reqs[s].def.files \ reqs[s].up
    BY DEF Opened
  <2>4. \A m \in Names : q.held[m] = IF m = n THEN disk[reqs[s].e][n] ELSE reqs[s].held[m]
    BY <2>1, <2>2 DEF Bytes
  <2> HIDE DEF q
  <2>5. FilesOf(q.held) = FilesOf(reqs[s].held) \cup {n}
    BY <2>1, <2>4, <1>3 DEF FilesOf
  <2>6. Opened(q)
    BY <2>2, <2>3, <2>5 DEF Opened
  <2>7. Opening(s, n) = q
    BY <1>3 DEF Opening, q
  <2>8. QED
    BY <2>2, <2>6, <2>7 DEF Updating
<1>4. QED
  BY <1>2, <1>3

LEMMA RestCopyOpens ==
  ASSUME TInv, OpenInv, RestInv, NEW s \in Slots, CopyOpens(s) PROVE RestInv'
<1>1. reqs[s].pc = "opening" /\ UNCHANGED <<defs, disk, faults, approved, stamped>>
  BY CopyOpensTo DEF store, counts, past
<1>2. PICK n \in reqs[s].up : reqs' = [reqs EXCEPT ![s] = Opening(s, n)]
  BY CopyOpensTo
<1>3. Opening(s, n).pc \notin Updating
  BY <1>1, OpeningKeeps DEF OpenInv
<1>4. reqs[s].e \in Ids /\ reqs[s].pc \notin Locked /\ ~InEdit(s, reqs[s].e)
  BY <1>1, Standing DEF Locked, Updating, InEdit
<1>5. faults = 0 /\ reqs[s].e \notin stamped' /\ (\A t \in Slots \ {s} : ~InEdit(t, reqs[s].e))
        => Sound(defs'[reqs[s].e], disk'[reqs[s].e], approved'[reqs[s].e])
  BY <1>1, <1>4 DEF RestInv
<1>6. QED
  BY <1>1, <1>2, <1>3, <1>4, <1>5, RestFollows

LEMMA RestCopyCreates ==
  ASSUME TInv, OpenInv, RestInv, NEW s \in Slots, CopyCreates(s) PROVE RestInv'
<1>1. /\ reqs[s].pc = "opening" /\ reqs[s].up = {} /\ lock = Free
      /\ UNCHANGED <<faults, approved, stamped>>
  BY CopyCases DEF counts, past
<1>2. reqs[s].e \in Ids /\ reqs[s] \in Request /\ ~InEdit(s, reqs[s].e)
  BY <1>1, Standing DEF InEdit, Updating
<1>3. CASE reqs' = [reqs EXCEPT ![s] = Idle] /\ UNCHANGED <<defs, disk>>
  <2>1. faults = 0 /\ reqs[s].e \notin stamped' /\ (\A t \in Slots \ {s} : ~InEdit(t, reqs[s].e))
          => Sound(defs'[reqs[s].e], disk'[reqs[s].e], approved'[reqs[s].e])
    BY <1>1, <1>2, <1>3 DEF RestInv
  <2>2. QED
    BY <1>1, <1>3, <2>1, RestDone
<1>4. ASSUME NEW e \in Ids, CopyOf(s, e) PROVE RestInv'
  <2> DEFINE d == Written(reqs[s].user, reqs[s].def.text, reqs[s].def.files)
             q == At("stamping", reqs[s].user, e, d, {}, {}, 0)
  <2>1. d.files = reqs[s].def.files /\ ~d.published
    BY DEF Written
  <2>2. q.pc \notin Updating
    BY DEF At, Updating
  <2>3. /\ disk' = [disk EXCEPT ![e] = reqs[s].held] /\ defs' = [defs EXCEPT ![e] = d]
        /\ reqs' = [reqs EXCEPT ![s] = q]
    BY <1>4 DEF CopyOf
  <2> HIDE DEF d, q
  <2>4. disk'[e] = reqs[s].held /\ defs'[e] = d
    BY <2>3 DEF TInv, Typed
  <2>5. FilesOf(reqs[s].held) = reqs[s].def.files
    BY <1>1 DEF OpenInv, Opened
  <2>6. Sound(defs'[e], disk'[e], approved'[e])
    BY <2>1, <2>4, <2>5 DEF Sound
  <2>7. \A x \in Ids : x # e => defs'[x] = defs[x] /\ disk'[x] = disk[x] /\ approved'[x] = approved[x]
    BY <1>1, <2>3 DEF TInv, Typed
  <2>8. QED
    BY <1>1, <2>2, <2>3, <2>6, <2>7, RestFollows
<1>5. QED
  BY <1>3, <1>4, CopyCases

LEMMA RestCopyStamps ==
  ASSUME TInv, RestInv, NEW s \in Slots, CopyStamps(s) PROVE RestInv'
<1>1. /\ reqs[s].pc = "stamping" /\ lock = Free /\ reqs' = [reqs EXCEPT ![s] = Idle]
      /\ defs' = [defs EXCEPT ![reqs[s].e] = reqs[s].def]
      /\ stamped' = IF defs[reqs[s].e] = reqs[s].def THEN stamped ELSE stamped \cup {reqs[s].e}
      /\ UNCHANGED <<disk, faults, approved>>
  BY DEF CopyStamps, counts
<1>2. reqs[s].e \in Ids
  BY <1>1, Standing
<1>3. \A t \in Slots : ~InEdit(t, reqs[s].e)
  BY <1>1, Alone DEF InEdit, TInv, Locked
<1>4. ASSUME faults = 0, reqs[s].e \notin stamped'
      PROVE  Sound(defs'[reqs[s].e], disk'[reqs[s].e], approved'[reqs[s].e])
  <2>1. defs[reqs[s].e] = reqs[s].def /\ reqs[s].e \notin stamped
    BY <1>1, <1>4
  <2>2. defs'[reqs[s].e] = defs[reqs[s].e]
    BY <1>1, <1>2, <2>1 DEF TInv, Typed
  <2>3. Sound(defs[reqs[s].e], disk[reqs[s].e], approved[reqs[s].e])
    BY <1>2, <1>3, <1>4, <2>1 DEF RestInv
  <2>4. QED
    BY <1>1, <2>2, <2>3
<1>5. \A x \in Ids : x # reqs[s].e => defs'[x] = defs[x] /\ disk'[x] = disk[x] /\ approved'[x] = approved[x]
  BY <1>1 DEF TInv, Typed
<1>6. QED
  BY <1>1, <1>4, <1>5, RestDone

LEMMA RestStep == TInv /\ DefInv /\ OpenInv /\ RestInv /\ [Next]_vars => RestInv'
<1> SUFFICES ASSUME TInv, DefInv, OpenInv, RestInv, [Next]_vars PROVE RestInv'
  OBVIOUS
<1>1. CASE UNCHANGED vars
  BY <1>1 DEF vars, store, counts, past, RestInv, InEdit, Sound, Ready, FilesOf, Updating
<1>2. ASSUME NEW s \in Slots, NEW u \in Users, NEW e \in Ids, CreateFails(s, u, e) PROVE RestInv'
  BY <1>2, CreateFailsType DEF RestInv
<1>3. ASSUME NEW s \in Slots, NEW u \in Users, NEW e \in Ids, Starts(s, u, e) PROVE RestInv'
  BY <1>3, <1>2, RestCreate, RestUpdateReads, RestDeleteDef, RestShare, RestLinks, RestSetPublished,
     RestCopyReads DEF Starts
<1>4. ASSUME NEW s \in Slots, Fails(s) \/ CopyFails(s) PROVE RestInv'
  BY <1>4, FailsType, CopyFailsType DEF RestInv
<1>5. ASSUME NEW s \in Slots, Continues(s) PROVE RestInv'
  BY <1>4, <1>5, RestUpdateReplaces, RestUpdatePrunes, RestUpdateWrites, RestDeleteFiles,
     RestCopyOpens, RestCopyCreates, RestCopyStamps DEF Continues
<1>6. QED
  BY <1>1, <1>3, <1>5 DEF Next

(* Only a copy opens files; every other step leaves its thread elsewhere, or there. *)
LEMMA OpenFollows ==
  ASSUME TInv, OpenInv, NEW s \in Slots, NEW q, reqs' = [reqs EXCEPT ![s] = q], Opened(q)
  PROVE  OpenInv'
<1>1. \A t \in Slots : reqs'[t] = IF t = s THEN q ELSE reqs[t]
  BY DEF TInv, Typed
<1>2. \A t \in Slots : Opened(reqs'[t])
  BY <1>1 DEF OpenInv
<1>3. QED
  BY <1>2 DEF OpenInv, Opened, FilesOf

LEMMA OpenStarts ==
  ASSUME TInv, OpenInv, NEW s \in Slots, NEW u \in Users, NEW e \in Ids, Starts(s, u, e)
  PROVE  OpenInv'
<1>1. CASE InOneStep(s)
  BY <1>1 DEF InOneStep, OpenInv, Opened, FilesOf
<1>2. CASE UpdateReads(s, u, e)
  <2>1. PICK K \in SUBSET defs[e].files, S \in SUBSET Names :
          Takes(s, At("storing", u, e, defs[e], S, K \cup S, edits + 1))
    BY <1>2 DEF UpdateReads
  <2>2. Opened(At("storing", u, e, defs[e], S, K \cup S, edits + 1))
    BY DEF At, Opened
  <2>3. QED
    BY <2>1, <2>2, OpenFollows DEF Takes
<1>3. CASE DeleteDef(s, u, e)
  <2>1. Opened(At("deleting", u, e, NoDef, {}, {}, 0))
    BY DEF At, Opened
  <2>2. QED
    BY <1>3, <2>1, OpenFollows DEF Takes, DeleteDef
<1>4. CASE CopyReads(s, u, e)
  <2> DEFINE q == At("opening", u, e, defs[e], defs[e].files, {}, 0)
  <2>1. q.up = q.def.files /\ q.held = NoBytes
    BY DEF At
  <2>2. reqs' = [reqs EXCEPT ![s] = q]
    BY <1>4 DEF CopyReads
  <2> HIDE DEF q
  <2>3. FilesOf(q.held) = {}
    BY <2>1 DEF FilesOf, NoBytes
  <2>4. Opened(q)
    BY <2>1, <2>3 DEF Opened
  <2>5. QED
    BY <2>2, <2>4, OpenFollows
<1>5. QED
  BY <1>1, <1>2, <1>3, <1>4 DEF Starts, Create, CreateFails, Share, Unshare, OpenShared, ForgetShared,
     SetPublished

LEMMA OpenContinues ==
  ASSUME TInv, OpenInv, NEW s \in Slots, Continues(s)
  PROVE  OpenInv'
<1>1. reqs[s] \in Request
  BY DEF TInv, Typed
<1>2. Opened(Idle)
  BY IdleType DEF Opened
<1>3. CASE UpdateReplaces(s)
  <2>1. PICK n \in reqs[s].up : reqs' = [reqs EXCEPT ![s] = [reqs[s] EXCEPT !.up = @ \ {n}]]
    BY <1>3 DEF UpdateReplaces
  <2>2. Opened([reqs[s] EXCEPT !.up = @ \ {n}])
    BY <1>1, <1>3 DEF UpdateReplaces, Request, Opened
  <2>3. QED
    BY <2>1, <2>2, OpenFollows
<1>4. CASE UpdatePrunes(s)
  BY <1>4 DEF UpdatePrunes, OpenInv, Opened, FilesOf
<1>5. CASE UpdateWrites(s) \/ DeleteFiles(s) \/ CopyStamps(s) \/ Fails(s) \/ CopyFails(s)
  <2>1. reqs' = [reqs EXCEPT ![s] = Idle]
    BY <1>5 DEF CopyFails, UpdateWrites, DeleteFiles, Leaves, CopyStamps, Fails
  <2>2. QED
    BY <2>1, <1>2, OpenFollows
<1>6. CASE CopyOpens(s)
  <2>1. PICK n \in reqs[s].up : reqs' = [reqs EXCEPT ![s] = Opening(s, n)]
    BY <1>6, CopyOpensTo
  <2>2. Opened(Opening(s, n))
    BY <1>6, CopyOpensTo, OpeningKeeps DEF OpenInv
  <2>3. QED
    BY <2>1, <2>2, OpenFollows
<1>7. CASE CopyCreates(s)
  <2>1. ASSUME NEW e \in Ids, CopyOf(s, e) PROVE OpenInv'
    <3> DEFINE q == At("stamping", reqs[s].user, e, Written(reqs[s].user, reqs[s].def.text, reqs[s].def.files), {}, {}, 0)
    <3>1. Opened(q) /\ reqs' = [reqs EXCEPT ![s] = q]
      BY <2>1 DEF CopyOf, At, Opened
    <3> HIDE DEF q
    <3>2. QED
      BY <3>1, OpenFollows
  <2>2. QED
    BY <1>7, <2>1, <1>2, CopyCases, OpenFollows
<1>8. QED
  BY <1>3, <1>4, <1>5, <1>6, <1>7 DEF Continues

LEMMA OpenStep == TInv /\ OpenInv /\ [Next]_vars => OpenInv'
<1> SUFFICES ASSUME TInv, OpenInv, [Next]_vars PROVE OpenInv'
  OBVIOUS
<1>1. CASE UNCHANGED vars
  BY <1>1 DEF vars, OpenInv, Opened, FilesOf
<1>2. CASE Next
  BY <1>2, OpenStarts, OpenContinues DEF Next
<1>3. QED
  BY <1>1, <1>2

FileInv == TInv /\ DefInv /\ OpenInv /\ RestInv

LEMMA FilesCorrect == Spec => []FileInv
<1>1. Init => FileInv
  <2> SUFFICES ASSUME Init PROVE FileInv
    OBVIOUS
  <2>1. TInv
    BY InitTyped DEF TInv
  <2>2. \A s \in Slots : reqs[s].pc = "idle"
    BY IdleType DEF Init
  <2>3. DefInv /\ OpenInv
    BY <2>2 DEF DefInv, OpenInv, Opened, Updating
  <2>4. RestInv
    BY <2>2 DEF Init, RestInv, InEdit, Sound, Updating
  <2>5. QED
    BY <2>1, <2>3, <2>4 DEF FileInv
<1>2. FileInv /\ [Next]_vars => FileInv'
  BY TypeStep, DefStep, OpenStep, RestStep DEF FileInv
<1>3. QED
  BY <1>1, <1>2, PTL DEF Spec

LEMMA RestSound == FileInv /\ AtRest => \A e \in Ids \ stamped : Sound(defs[e], disk[e], approved[e])
<1> SUFFICES ASSUME FileInv, AtRest PROVE \A e \in Ids \ stamped : Sound(defs[e], disk[e], approved[e])
  OBVIOUS
<1>1. \A s \in Slots, e \in Ids : ~InEdit(s, e)
  BY Alone DEF FileInv, TInv, AtRest, InEdit, Locked
<1>2. QED
  BY <1>1 DEF FileInv, RestInv, AtRest

(* Between operations every example has exactly the files it lists, however *)
(* edits, deletions and copies of it interleave, while none fails half way. *)
THEOREM FilesBacked == Spec => []FilesBackDefinition
<1>1. FileInv => FilesBackDefinition
  BY RestSound DEF FilesBackDefinition, Sound, Exists, FilesOf
<1>2. QED
  BY <1>1, FilesCorrect, PTL

(* Between operations, what is published is what an admin left published.  *)
THEOREM PublishedApproved == Spec => []ApprovedAtRest
<1>1. FileInv => ApprovedAtRest
  BY RestSound DEF ApprovedAtRest, Sound, Exists
<1>2. QED
  BY <1>1, FilesCorrect, PTL
=============================================================================
