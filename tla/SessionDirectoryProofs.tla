----------------------- MODULE SessionDirectoryProofs -----------------------
(***************************************************************************)
(* What TLAPS proves of SessionDirectory, for any turns, conversations and *)
(* files, any number of edits and mishaps: the types,                      *)
(* who may work in a directory, and that nothing is withheld as sent.      *)
(***************************************************************************)
EXTENDS SessionDirectory, FiniteSetTheorems, TLAPS

-----------------------------------------------------------------------------
(* Types.                                                                  *)

LEMMA InitTyped == Init => Typed
  BY DEF Init, Typed, Places, Nothing

(* What unlinking one name does to what is in the directory.                *)
Unlinked(t, c, e) ==
    /\ content' = [content EXCEPT ![c] = [f \in Files |-> IF f = e THEN 0 ELSE @[f]]]
    /\ history' = [history EXCEPT ![c] = @ /\ e # "history"]
    /\ manifest' = [manifest EXCEPT ![c] = IF e = "manifest" THEN Nothing ELSE @]
    /\ lapsed' = IF e = "manifest" THEN lapsed \cup {c} ELSE lapsed
    /\ lock' = [lock EXCEPT ![c] = IF e = "lock" THEN NoOne ELSE @]
    /\ stale' = [stale EXCEPT ![c] = @ /\ e # "lock"]
    /\ raced' = IF e = "lock" /\ TakenFrom(t, c) THEN raced \cup {c} ELSE raced
    /\ expired' = [expired EXCEPT ![c] = FALSE]

LEMMA SweepTyped ==
  ASSUME Typed, NEW t \in Turns,
         \/ BeginSweep(t) \/ SweepLooks(t) \/ SweepLists(t) \/ SweepUnlinks(t)
         \/ SweepRemoves(t) \/ EndSweep(t)
  PROVE  Typed'
<1> USE DEF Typed, Goes, Happens, Places, Claiming, Working, Over, run, past, disk, sweep
<1>1. CASE BeginSweep(t)
  BY <1>1 DEF BeginSweep
<1>2. CASE SweepLooks(t)
  <2>1. PICK c \in todo[t] :
          /\ todo' = [todo EXCEPT ![t] = @ \ {c}]
          /\ \/ /\ pc' = [pc EXCEPT ![t] = "condemned"]
                /\ doomed' = [doomed EXCEPT ![t] = {c}]
             \/ UNCHANGED <<pc, doomed>>
          /\ UNCHANGED <<conv, listed, disk, run, past>>
    BY <1>2 DEF SweepLooks
  <2>2. c \in Convs
    BY <2>1
  <2>3. todo' \in [Turns -> SUBSET Convs]
    BY <2>1
  <2>4. pc' \in [Turns -> Places] /\ doomed' \in [Turns -> SUBSET Convs]
    <3>1. {c} \in SUBSET Convs /\ "condemned" \in Places
      BY <2>2
    <3>2. CASE UNCHANGED <<pc, doomed>>
      BY <3>2
    <3>3. CASE doomed' = [doomed EXCEPT ![t] = {c}] /\ pc' = [pc EXCEPT ![t] = "condemned"]
      BY <3>1, <3>3
    <3>4. QED
      BY <2>1, <3>2, <3>3
  <2>5. QED
    BY <2>1, <2>3, <2>4
<1>3. CASE SweepLists(t)
  <2>1. PICK c \in doomed[t] : listed' = [listed EXCEPT ![t] = Entries(c)]
    BY <1>3 DEF SweepLists
  <2>2. Entries(c) \subseteq Files \cup Hidden
    BY DEF Entries, Present, Hidden
  <2>3. QED
    BY <1>3, <2>1, <2>2 DEF SweepLists
<1>4. CASE SweepUnlinks(t)
  <2>1. PICK c \in doomed[t], e \in listed[t] :
          /\ listed' = [listed EXCEPT ![t] = @ \ {e}]
          /\ \/ Unlinked(t, c, e)
             \/ UNCHANGED <<content, history, manifest, lapsed, lock, stale, raced, expired>>
          /\ UNCHANGED <<conv, pc, todo, doomed, exists, run, edits, sent, stray, mishaps>>
    BY <1>4 DEF SweepUnlinks, Unlinked
  <2>2. c \in Convs /\ Nothing \in [Files -> Nat]
    BY DEF Nothing
  <2>3. CASE Unlinked(t, c, e)
    <3>1. /\ content' \in [Convs -> [Files -> Nat]] /\ manifest' \in [Convs -> [Files -> Nat]]
          /\ raced' \in SUBSET Convs /\ lapsed' \in SUBSET Convs
      BY <2>2, <2>3 DEF Unlinked
    <3>2. /\ history' \in [Convs -> BOOLEAN] /\ stale' \in [Convs -> BOOLEAN]
          /\ expired' \in [Convs -> BOOLEAN] /\ lock' \in [Convs -> Turns \cup {NoOne}]
      BY <2>2, <2>3 DEF Unlinked
    <3>3. QED
      BY <2>1, <3>1, <3>2
  <2>4. CASE UNCHANGED <<content, history, manifest, lapsed, lock, stale, raced, expired>>
    BY <2>1, <2>4
  <2>5. QED
    BY <2>1, <2>3, <2>4
<1>5. CASE SweepRemoves(t)
  <2>1. PICK c \in doomed[t] :
          /\ pc' = [pc EXCEPT ![t] = "sweeping"] /\ doomed' = [doomed EXCEPT ![t] = {}]
          /\ \/ /\ exists' = [exists EXCEPT ![c] = FALSE]
                /\ expired' = [expired EXCEPT ![c] = FALSE]
                /\ listed' = [u \in Turns |-> IF doomed[u] = {c} THEN {} ELSE listed[u]]
                /\ mounted' = [u \in Turns |-> mounted[u] /\ conv[u] # c]
                /\ lapsed' = lapsed \ {c}
             \/ UNCHANGED <<exists, expired, listed, mounted, lapsed>>
          /\ UNCHANGED <<conv, todo, history, content, manifest, lock, stale, box, resumed,
                         staged, delivered, edits, sent, raced, stray, mishaps>>
    BY <1>5 DEF SweepRemoves
  <2>2. c \in Convs
    BY <2>1
  <2>3. /\ exists' \in [Convs -> BOOLEAN] /\ expired' \in [Convs -> BOOLEAN]
        /\ listed' \in [Turns -> SUBSET (Files \cup Hidden)]
    BY <2>1, <2>2
  <2>4. mounted' \in [Turns -> BOOLEAN] /\ lapsed' \in SUBSET Convs
    BY <2>1, <2>2
  <2>5. QED
    BY <2>1, <2>3, <2>4
<1>6. CASE EndSweep(t)
  BY <1>6 DEF EndSweep
<1>7. QED
  BY <1>1, <1>2, <1>3, <1>4, <1>5, <1>6

LEMMA ClaimTyped ==
  ASSUME Typed, NEW t \in Turns,
         \/ MakeDir(t) \/ MakeDirFails(t) \/ LookForLock(t) \/ DateLock(t)
         \/ BreakLock(t) \/ CreateLock(t) \/ GivesUp(t)
  PROVE  Typed'
<1> USE DEF Typed, Goes, Happens, Places, Claiming, Working, Over, run, past, disk, sweep
<1>1. CASE MakeDir(t) \/ MakeDirFails(t)
  BY <1>1 DEF MakeDir, MakeDirFails
<1>2. CASE LookForLock(t) \/ DateLock(t) \/ GivesUp(t)
  <2>1. /\ \E p \in Places : pc' = [pc EXCEPT ![t] = p]
        /\ UNCHANGED <<conv, sweep, disk, run, past>>
    BY <1>2 DEF LookForLock, DateLock, GivesUp
  <2>2. pc' \in [Turns -> Places]
    BY <2>1
  <2>3. QED
    BY <2>1, <2>2
<1>3. CASE BreakLock(t)
  BY <1>3 DEF BreakLock
<1>4. CASE CreateLock(t)
  BY <1>4 DEF CreateLock
<1>5. QED
  BY <1>1, <1>2, <1>3, <1>4

LEMMA RunTyped ==
  ASSUME Typed, NEW t \in Turns,
         \/ BoxWrites(t) \/ BoxEnds(t) \/ BoxOutlives(t) \/ Deliver(t) \/ Record(t)
         \/ Aborts(t) \/ Release(t) \/ Crash(t)
  PROVE  Typed'
<1> USE DEF Typed, Goes, Happens, Places, Claiming, Working, Over, run, past, disk, sweep
<1>1. CASE BoxWrites(t)
  BY <1>1 DEF BoxWrites
<1>2. CASE BoxEnds(t)
  BY <1>2 DEF BoxEnds
<1>3. CASE Deliver(t)
  BY <1>3 DEF Deliver, Present
<1>4. CASE Record(t)
  <2>1. Recorded(t, conv[t]) \in [Files -> Nat]
    BY DEF Recorded
  <2>2. /\ manifest' \in {manifest, [manifest EXCEPT ![conv[t]] = Recorded(t, conv[t])]}
        /\ lapsed' \in {lapsed, lapsed \cup {conv[t]}}
    BY <1>4 DEF Record
  <2>3. manifest' \in [Convs -> [Files -> Nat]] /\ lapsed' \in SUBSET Convs
    <3>1. conv[t] \in Convs
      OBVIOUS
    <3>2. [manifest EXCEPT ![conv[t]] = Recorded(t, conv[t])] \in [Convs -> [Files -> Nat]]
      BY <2>1
    <3>3. QED
      BY <2>2, <3>1, <3>2
  <2>4. QED
    BY <1>4, <2>3 DEF Record
<1>5. CASE Aborts(t)
  BY <1>5 DEF Aborts
<1>6. CASE Release(t)
  BY <1>6 DEF Release
<1>7. CASE Crash(t)
  BY <1>7 DEF Crash
<1>8. CASE BoxOutlives(t)
  BY <1>8 DEF BoxOutlives
<1>9. QED
  BY <1>1, <1>2, <1>3, <1>4, <1>5, <1>6, <1>7, <1>8

LEMMA StartTyped ==
  ASSUME Typed, NEW t \in Turns, Start(t) PROVE Typed'
<1> USE DEF Typed, Goes, Happens, Places, Claiming, Working, Over, run, past, disk, sweep
<1>1. PICK S \in SUBSET Files :
        /\ edits' = edits + Cardinality(S)
        /\ staged' = [staged EXCEPT ![t] = IF exists[conv[t]] THEN S ELSE {}]
        /\ content' = [content EXCEPT ![conv[t]] =
              [f \in Files |-> IF f \in S /\ exists[conv[t]] THEN edits + 1 ELSE @[f]]]
  BY DEF Start
<1>2. Cardinality(S) \in Nat
  BY <1>1, FS_CardinalityType, DirectoryConstants, FS_Subset
<1>3. edits' \in Nat /\ staged' \in [Turns -> SUBSET Files]
  BY <1>1, <1>2
<1>4. content' \in [Convs -> [Files -> Nat]]
  BY <1>1
<1>5. QED
  BY <1>3, <1>4 DEF Start

LEMMA AgesTyped ==
  ASSUME Typed, NEW c \in Convs, LockAges(c) \/ DirAges(c) PROVE Typed'
<1> USE DEF Typed, Happens, Places, run, past, disk, sweep
<1>1. CASE LockAges(c)
  BY <1>1 DEF LockAges
<1>2. CASE DirAges(c)
  BY <1>2 DEF DirAges
<1>3. QED
  BY <1>1, <1>2

LEMMA StepTyped == Typed /\ [Next]_vars => Typed'
<1> SUFFICES ASSUME Typed, [Next]_vars PROVE Typed'
  OBVIOUS
<1>1. ASSUME NEW t \in Turns, Step(t) PROVE Typed'
  BY <1>1, SweepTyped, ClaimTyped, StartTyped, RunTyped DEF Step
<1>2. ASSUME NEW c \in Convs, LockAges(c) \/ DirAges(c) PROVE Typed'
  BY <1>2, AgesTyped
<1>3. CASE UNCHANGED vars
  BY <1>3 DEF vars, disk, run, past, sweep, Typed
<1>4. QED
  BY <1>1, <1>2, <1>3 DEF Next

-----------------------------------------------------------------------------
(* Locks and claims.                                                       *)

(* A turn that works under no claim taken away has the lock. *)
Claims == \A t \in Turns : pc[t] \in Working /\ conv[t] \notin raced => lock[conv[t]] = t

LockInv == LockOwned /\ Claims

Bound == Working \cup {"dead"}

(* What most steps of a turn do to locks and claims: nothing. *)
Still(t) ==
    /\ UNCHANGED <<conv, lock, raced>>
    /\ \A u \in Turns \ {t} : pc'[u] = pc[u]
    /\ pc'[t] \in Working => pc[t] \in Working
    /\ pc[t] \in Bound => pc'[t] \in Bound

LEMMA StillLock ==
  ASSUME Typed, LockInv, NEW t \in Turns, Still(t) PROVE LockInv'
<1>1. LockOwned'
  <2> SUFFICES ASSUME NEW c \in Convs, lock[c] # NoOne
               PROVE  conv[lock[c]] = c /\ pc'[lock[c]] \in Bound
    BY DEF Still, LockOwned, Bound
  <2>1. lock[c] \in Turns /\ conv[lock[c]] = c /\ pc[lock[c]] \in Bound
    BY DEF Typed, LockInv, LockOwned, Bound
  <2>2. QED
    BY <2>1 DEF Still
<1>2. Claims'
  BY DEF Still, LockInv, Claims
<1>3. QED
  BY <1>1, <1>2 DEF LockInv

LEMMA StillSteps ==
  ASSUME Typed, NEW t \in Turns,
         \/ BeginSweep(t) \/ SweepLooks(t) \/ SweepLists(t) \/ SweepRemoves(t) \/ EndSweep(t)
         \/ MakeDir(t) \/ MakeDirFails(t) \/ LookForLock(t) \/ DateLock(t) \/ GivesUp(t)
         \/ Start(t) \/ BoxWrites(t) \/ BoxEnds(t) \/ BoxOutlives(t) \/ Deliver(t)
         \/ Record(t) \/ Aborts(t) \/ Crash(t)
  PROVE  Still(t)
<1> USE DEF Still, Bound, Typed, Goes, Working, disk, run, past
<1>1. CASE BeginSweep(t) \/ SweepLists(t) \/ SweepRemoves(t) \/ EndSweep(t)
  BY <1>1 DEF BeginSweep, SweepLists, SweepRemoves, EndSweep
<1>2. CASE SweepLooks(t)
  BY <1>2 DEF SweepLooks
<1>3. CASE MakeDir(t) \/ MakeDirFails(t)
  BY <1>3 DEF MakeDir, MakeDirFails
<1>4. CASE LookForLock(t) \/ DateLock(t) \/ GivesUp(t)
  BY <1>4 DEF LookForLock, DateLock, GivesUp
<1>5. CASE Start(t)
  BY <1>5 DEF Start
<1>6. CASE BoxWrites(t)
  BY <1>6 DEF BoxWrites
<1>7. CASE BoxEnds(t) \/ BoxOutlives(t)
  BY <1>7 DEF BoxEnds, BoxOutlives
<1>8. CASE Deliver(t)
  BY <1>8 DEF Deliver
<1>9. CASE Record(t)
  BY <1>9 DEF Record
<1>10. CASE Aborts(t)
  BY <1>10 DEF Aborts
<1>11. CASE Crash(t)
  BY <1>11 DEF Crash
<1>12. QED
  BY <1>1, <1>2, <1>3, <1>4, <1>5, <1>6, <1>7, <1>8, <1>9, <1>10, <1>11

(* Three steps remove a lock by name.  If it was a live turn's, the         *)
(* directory is one where a claim was taken away.                           *)
Unlinks(t, d) ==
    /\ lock' = [lock EXCEPT ![d] = NoOne]
    /\ raced' = IF TakenFrom(t, d) THEN raced \cup {d} ELSE raced
    /\ conv' = conv
    /\ \A u \in Turns \ {t} : pc'[u] = pc[u]
    /\ pc'[t] \notin Working
    /\ conv[t] = d \/ pc[t] \notin Bound

LEMMA UnlinksLock ==
  ASSUME Typed, LockInv, NEW t \in Turns, NEW d \in Convs, Unlinks(t, d) PROVE LockInv'
<1>1. lock'[d] = NoOne /\ \A c \in Convs \ {d} : lock'[c] = lock[c]
  BY DEF Unlinks, Typed
<1>2. LockOwned'
  <2> SUFFICES ASSUME NEW c \in Convs, lock'[c] # NoOne
               PROVE  conv[lock'[c]] = c /\ pc'[lock'[c]] \in Bound
    BY DEF Unlinks, LockOwned, Bound
  <2>1. c # d /\ lock'[c] = lock[c]
    BY <1>1
  <2>2. lock[c] \in Turns /\ conv[lock[c]] = c /\ pc[lock[c]] \in Bound
    BY <2>1 DEF Typed, LockInv, LockOwned, Bound
  <2>3. lock[c] # t
    BY <2>1, <2>2 DEF Unlinks
  <2>4. QED
    BY <2>1, <2>2, <2>3 DEF Unlinks
<1>3. Claims'
  <2> SUFFICES ASSUME NEW u \in Turns, pc'[u] \in Working, conv[u] \notin raced'
               PROVE  lock'[conv[u]] = u
    BY DEF Unlinks, Claims
  <2>1. u # t /\ pc[u] \in Working /\ conv[u] \notin raced /\ conv[u] \in Convs
    BY DEF Unlinks, Typed
  <2>2. lock[conv[u]] = u
    BY <2>1 DEF LockInv, Claims
  <2>3. conv[u] # d
    BY <2>1, <2>2 DEF Unlinks, TakenFrom
  <2>4. QED
    BY <1>1, <2>1, <2>2, <2>3
<1>4. QED
  BY <1>2, <1>3 DEF LockInv

LEMMA UnlinkSteps ==
  ASSUME Typed, NEW t \in Turns, BreakLock(t) \/ Release(t)
  PROVE  conv[t] \in Convs /\ Unlinks(t, conv[t])
<1>1. CASE BreakLock(t)
  BY <1>1 DEF BreakLock, Unlinks, Goes, Typed, Working
<1>2. CASE Release(t)
  BY <1>2 DEF Release, Unlinks, Goes, Typed, Working
<1>3. QED
  BY <1>1, <1>2

(* A lock is made only where there is none. *)
LEMMA CreateLockLock ==
  ASSUME Typed, LockInv, NEW t \in Turns, CreateLock(t) PROVE LockInv'
<1> DEFINE d == conv[t]
<1>1. /\ d \in Convs /\ lock[d] = NoOne /\ lock'[d] = t /\ \A c \in Convs \ {d} : lock'[c] = lock[c]
      /\ conv' = conv /\ raced' = raced
      /\ pc'[t] = "claimed" /\ \A u \in Turns \ {t} : pc'[u] = pc[u]
  BY DEF CreateLock, Goes, Typed, past
<1>2. LockOwned'
  <2> SUFFICES ASSUME NEW c \in Convs, lock'[c] # NoOne
               PROVE  conv[lock'[c]] = c /\ pc'[lock'[c]] \in Bound
    BY <1>1 DEF LockOwned, Bound
  <2>1. CASE c = d
    BY <1>1, <2>1 DEF Bound, Working
  <2>2. CASE c # d
    <3>1. lock'[c] = lock[c] /\ lock[c] \in Turns /\ conv[lock[c]] = c /\ pc[lock[c]] \in Bound
      BY <1>1, <2>2 DEF Typed, LockInv, LockOwned, Bound
    <3>2. lock[c] # t
      BY <2>2, <3>1
    <3>3. QED
      BY <1>1, <3>1, <3>2
  <2>3. QED
    BY <2>1, <2>2
<1>3. Claims'
  <2> SUFFICES ASSUME NEW u \in Turns, pc'[u] \in Working, conv[u] \notin raced
               PROVE  lock'[conv[u]] = u
    BY <1>1 DEF Claims
  <2>1. CASE u = t
    BY <1>1, <2>1
  <2>2. CASE u # t
    <3>1. conv[u] \in Convs /\ lock[conv[u]] = u
      BY <1>1, <2>2 DEF LockInv, Claims, Typed
    <3>2. conv[u] # d
      BY <1>1, <3>1, DirectoryConstants
    <3>3. QED
      BY <1>1, <3>1, <3>2
  <2>3. QED
    BY <2>1, <2>2
<1>4. QED
  BY <1>2, <1>3 DEF LockInv

(* Whoever worked where a sweep unlinks the lock has lost its claim.        *)
LEMMA SweepUnlinksLock ==
  ASSUME Typed, LockInv, NEW t \in Turns, SweepUnlinks(t) PROVE LockInv'
<1>1. PICK d \in doomed[t], e \in listed[t] :
        /\ \/ Unlinked(t, d, e)
           \/ UNCHANGED <<lock, raced>>
        /\ pc[t] = "removing" /\ UNCHANGED <<conv, pc>>
  BY DEF SweepUnlinks, Unlinked
<1>2. d \in Convs /\ pc[t] \notin Bound
  BY <1>1 DEF Typed, Bound, Working
<1>3. CASE Unlinked(t, d, e) /\ e = "lock"
  <2>1. Unlinks(t, d)
    BY <1>1, <1>2, <1>3 DEF Unlinked, Unlinks, Bound
  <2>2. QED
    BY <1>2, <2>1, UnlinksLock
<1>4. CASE ~(Unlinked(t, d, e) /\ e = "lock")
  <2>1. UNCHANGED <<lock, raced>>
    BY <1>1, <1>2, <1>4 DEF Unlinked, Typed
  <2>2. Still(t)
    BY <1>1, <2>1 DEF Still
  <2>3. QED
    BY <2>2, StillLock
<1>5. QED
  BY <1>3, <1>4

LEMMA StepLock == Typed /\ LockInv /\ [Next]_vars => LockInv'
<1> SUFFICES ASSUME Typed, LockInv, [Next]_vars PROVE LockInv'
  OBVIOUS
<1>1. ASSUME NEW t \in Turns, Step(t) PROVE LockInv'
  BY <1>1, StillSteps, StillLock, UnlinkSteps, UnlinksLock, CreateLockLock, SweepUnlinksLock
     DEF Step
<1>2. ASSUME NEW c \in Convs, LockAges(c) \/ DirAges(c) PROVE LockInv'
  BY <1>2 DEF LockAges, DirAges, past, LockInv, LockOwned, Claims
<1>3. CASE UNCHANGED vars
  BY <1>3 DEF vars, disk, past, LockInv, LockOwned, Claims
<1>4. QED
  BY <1>1, <1>2, <1>3 DEF Next

THEOREM LockCorrect == Spec => [](Typed /\ LockInv)
<1>1. Init => Typed /\ LockInv
  <2>1. Init => LockInv
    BY DEF Init, LockInv, LockOwned, Claims, Working
  <2>2. QED
    BY <2>1, InitTyped
<1>2. Typed /\ LockInv /\ [Next]_vars => (Typed /\ LockInv)'
  BY StepTyped, StepLock
<1>3. QED
  BY <1>1, <1>2, PTL DEF Spec

(* Every variable keeps its type, and every lock is held by a turn of its   *)
(* conversation that works or has died: no turn ends with its lock kept.    *)
THEOREM TypeCorrect == Spec => []TypeOK
<1>1. Typed /\ LockInv => TypeOK
  BY DEF TypeOK, LockInv
<1>2. QED
  BY <1>1, LockCorrect, PTL

(* Two turns of one conversation work in its directory together only after  *)
(* a live claim was taken away by name.                                     *)
THEOREM ClaimsExclude == Spec => []Exclusive
<1>1. Typed /\ LockInv => Exclusive
  <2> SUFFICES ASSUME Typed, LockInv, NEW c \in Convs \ raced
               PROVE  Cardinality(Workers(c)) <= 1
    BY DEF Exclusive
  <2>1. \A t \in Workers(c) : t = lock[c]
    BY DEF Workers, LockInv, Claims
  <2>2. Workers(c) = {} \/ Workers(c) = {lock[c]}
    BY <2>1
  <2>3. Cardinality({}) = 0 /\ Cardinality({lock[c]}) = 1
    BY FS_EmptySet, FS_Singleton
  <2>4. QED
    BY <2>2, <2>3
<1>2. QED
  BY <1>1, LockCorrect, PTL

-----------------------------------------------------------------------------
(* What the manifest says was sent.                                        *)

ManifestSent ==
    \A c \in Convs \ (raced \cup stray) : \A f \in Files :
       manifest[c][f] # 0 => <<f, manifest[c][f]>> \in sent

(* A container runs while its turn waits for it, or is known to run on.     *)
BoxStarted == \A t \in Turns : box[t] /\ conv[t] \notin stray => pc[t] = "started"

(* What was just delivered has not been written since. *)
DeliveredSent ==
    \A t \in Turns : pc[t] = "delivered" /\ conv[t] \notin raced \cup stray =>
       \A f \in delivered[t] \cap Present(conv[t]) : <<f, content[conv[t]][f]>> \in sent

SentInv == ManifestSent /\ BoxStarted /\ DeliveredSent

(* A directory that was not taken from anyone has one worker. *)
LEMMA OneWorker ==
  ASSUME Claims, NEW t \in Turns, NEW u \in Turns, pc[t] \in Working, pc[u] \in Working,
         conv[t] = conv[u], conv[t] \notin raced
  PROVE  t = u
  BY DEF Claims

(* What most steps do to files and what was sent: nothing. *)
Quiet(t) ==
    /\ UNCHANGED <<conv, content, manifest, box, delivered, sent>>
    /\ raced \subseteq raced' /\ stray \subseteq stray'
    /\ \A u \in Turns \ {t} : pc'[u] = pc[u]
    /\ pc'[t] = "delivered" => pc[t] = "delivered"
    /\ box[t] /\ pc[t] = "started" /\ conv[t] \notin stray' => pc'[t] = "started"

LEMMA QuietSent ==
  ASSUME SentInv, NEW t \in Turns, Quiet(t)
  PROVE  SentInv'
<1>1. ManifestSent'
  BY DEF SentInv, Quiet, ManifestSent
<1>2. BoxStarted'
  BY DEF SentInv, Quiet, BoxStarted
<1>3. DeliveredSent'
  BY DEF SentInv, Quiet, DeliveredSent, Present
<1>4. QED
  BY <1>1, <1>2, <1>3 DEF SentInv

LEMMA QuietSteps ==
  ASSUME Typed, NEW t \in Turns,
         \/ BeginSweep(t) \/ SweepLooks(t) \/ SweepLists(t) \/ SweepRemoves(t) \/ EndSweep(t)
         \/ MakeDir(t) \/ MakeDirFails(t) \/ LookForLock(t) \/ DateLock(t)
         \/ BreakLock(t) \/ CreateLock(t) \/ GivesUp(t)
         \/ BoxOutlives(t) \/ Aborts(t) \/ Release(t) \/ Crash(t)
  PROVE  Quiet(t)
<1> USE DEF Quiet, Typed, Goes, disk, run, past
<1>1. CASE BeginSweep(t) \/ SweepLists(t) \/ SweepRemoves(t) \/ EndSweep(t)
  BY <1>1 DEF BeginSweep, SweepLists, SweepRemoves, EndSweep
<1>2. CASE SweepLooks(t)
  BY <1>2 DEF SweepLooks
<1>3. CASE MakeDir(t) \/ MakeDirFails(t)
  BY <1>3 DEF MakeDir, MakeDirFails
<1>4. CASE LookForLock(t) \/ DateLock(t) \/ GivesUp(t)
  BY <1>4 DEF LookForLock, DateLock, GivesUp
<1>5. CASE BreakLock(t) \/ Release(t)
  BY <1>5 DEF BreakLock, Release
<1>6. CASE CreateLock(t)
  BY <1>6 DEF CreateLock
<1>7. CASE BoxOutlives(t) \/ Aborts(t) \/ Crash(t)
  BY <1>7 DEF BoxOutlives, Aborts, Crash
<1>8. QED
  BY <1>1, <1>2, <1>3, <1>4, <1>5, <1>6, <1>7

LEMMA SweepUnlinksSent ==
  ASSUME Typed, SentInv, NEW t \in Turns, SweepUnlinks(t) PROVE SentInv'
<1>1. /\ \A c \in Convs, f \in Files :
            /\ content'[c][f] \in {content[c][f], 0}
            /\ manifest'[c][f] \in {manifest[c][f], 0}
      /\ raced \subseteq raced' /\ UNCHANGED <<conv, pc, box, delivered, sent, stray>>
  <2>1. PICK c \in doomed[t], e \in listed[t] :
          /\ Unlinked(t, c, e) \/ UNCHANGED <<content, manifest, raced>>
          /\ UNCHANGED <<conv, pc, run, sent, stray>>
    BY DEF SweepUnlinks, Unlinked
  <2>2. CASE Unlinked(t, c, e)
    BY <2>1, <2>2 DEF Unlinked, Typed, Nothing, run
  <2>3. CASE UNCHANGED <<content, manifest, raced>>
    BY <2>1, <2>3 DEF run
  <2>4. QED
    BY <2>1, <2>2, <2>3
<1>2. ManifestSent'
  BY <1>1 DEF SentInv, ManifestSent
<1>3. BoxStarted'
  BY <1>1 DEF SentInv, BoxStarted
<1>4. DeliveredSent'
  BY <1>1 DEF SentInv, DeliveredSent, Present, Typed
<1>5. QED
  BY <1>2, <1>3, <1>4 DEF SentInv

(* Whoever writes in a directory works there, so that nobody else has just  *)
(* delivered from it, or is known to have run on.                           *)
LEMMA WritesSent ==
  ASSUME Typed, Claims, SentInv,
         NEW t \in Turns, Start(t) \/ BoxWrites(t)
  PROVE  SentInv'
<1>1. /\ (pc[t] \in Working \ {"delivered"} /\ pc'[t] = "started") \/ conv[t] \in stray
      /\ \A u \in Turns : pc'[u] = "delivered" => pc[u] = "delivered"
      /\ \A u \in Turns : u # t => pc'[u] = pc[u] /\ box'[u] = box[u]
      /\ UNCHANGED <<conv, manifest, delivered, sent, raced, stray>>
  <2>1. CASE Start(t)
    BY <2>1 DEF Start, Goes, Typed, Working
  <2>2. CASE BoxWrites(t)
    BY <2>2 DEF BoxWrites, SentInv, BoxStarted, run, Working
  <2>3. QED
    BY <2>1, <2>2
<1>2. \A c \in Convs : c # conv[t] => content'[c] = content[c]
  <2>1. CASE Start(t)
    BY <2>1 DEF Start, Typed
  <2>2. CASE BoxWrites(t)
    BY <2>2 DEF BoxWrites, Typed
  <2>3. QED
    BY <2>1, <2>2
<1>3. ManifestSent'
  BY <1>1 DEF SentInv, ManifestSent
<1>4. BoxStarted'
  BY <1>1 DEF SentInv, BoxStarted
<1>5. DeliveredSent'
  <2> SUFFICES ASSUME NEW u \in Turns, pc'[u] = "delivered", conv[u] \notin raced \cup stray
               PROVE  \A f \in delivered[u] \cap Present(conv[u])' :
                         <<f, content'[conv[u]][f]>> \in sent
    BY <1>1 DEF DeliveredSent, Present
  <2>1. pc[u] = "delivered"
    BY <1>1
  <2>2. conv[u] # conv[t]
    <3>1. CASE conv[t] \in stray
      BY <3>1
    <3>2. CASE conv[t] \notin stray
      BY <1>1, <2>1, <3>2, OneWorker DEF Working
    <3>3. QED
      BY <3>1, <3>2
  <2>3. content'[conv[u]] = content[conv[u]]
    BY <1>2, <2>2 DEF Typed
  <2>4. Present(conv[u])' = Present(conv[u])
    BY <1>1, <2>3 DEF Present
  <2>5. \A f \in delivered[u] \cap Present(conv[u]) : <<f, content[conv[u]][f]>> \in sent
    BY <2>1 DEF SentInv, DeliveredSent
  <2>6. QED
    BY <2>3, <2>4, <2>5
<1>6. QED
  BY <1>3, <1>4, <1>5 DEF SentInv

LEMMA BoxEndsSent ==
  ASSUME Typed, SentInv, NEW t \in Turns, BoxEnds(t)
  PROVE  SentInv'
<1>1. /\ UNCHANGED <<conv, content, manifest, delivered, sent, raced, stray>>
      /\ ~box'[t] /\ (pc'[t] = pc[t] \/ pc'[t] = "ended")
      /\ \A u \in Turns : u # t => pc'[u] = pc[u] /\ box'[u] = box[u]
  BY DEF BoxEnds, Typed, disk, past
<1>2. QED
  BY <1>1 DEF SentInv, ManifestSent, BoxStarted, DeliveredSent, Present

LEMMA DeliverSent ==
  ASSUME Typed, SentInv, NEW t \in Turns, Deliver(t)
  PROVE  SentInv'
<1>1. PICK D \in SUBSET (Present(conv[t]) \ (staged[t] \cup AlreadyPersisted(conv[t]))) :
        /\ delivered' = [delivered EXCEPT ![t] = D]
        /\ sent' = sent \cup {<<f, content[conv[t]][f]>> : f \in D}
  BY DEF Deliver
<1>2. /\ UNCHANGED <<conv, content, manifest, box, raced, stray>>
      /\ pc[t] = "ended" /\ pc'[t] = "delivered" /\ delivered'[t] = D
      /\ \A u \in Turns : u # t => pc'[u] = pc[u] /\ delivered'[u] = delivered[u]
      /\ sent \subseteq sent'
  BY <1>1 DEF Deliver, Goes, Typed, disk
<1>3. ManifestSent'
  BY <1>2 DEF SentInv, ManifestSent
<1>4. BoxStarted'
  BY <1>2 DEF SentInv, BoxStarted
<1>5. DeliveredSent'
  <2> SUFFICES ASSUME NEW u \in Turns, pc'[u] = "delivered", conv[u] \notin raced \cup stray,
                      NEW f \in delivered'[u] \cap Present(conv[u])
               PROVE  <<f, content[conv[u]][f]>> \in sent'
    BY <1>2 DEF SentInv, DeliveredSent, Present
  <2>1. CASE u = t
    <3>1. f \in D
      BY <1>2, <2>1
    <3>2. <<f, content[conv[t]][f]>> \in sent'
      BY <1>1, <3>1
    <3>3. QED
      BY <2>1, <3>2
  <2>2. CASE u # t
    BY <1>2, <2>2 DEF SentInv, DeliveredSent
  <2>3. QED
    BY <2>1, <2>2
<1>6. QED
  BY <1>3, <1>4, <1>5 DEF SentInv

(* The manifest takes what was delivered, now or before, and nothing else. *)
LEMMA RecordSent ==
  ASSUME Typed, SentInv, NEW t \in Turns, Record(t)
  PROVE  SentInv'
<1> DEFINE d == conv[t]
<1>1. /\ UNCHANGED <<conv, content, box, delivered, sent, raced, stray>>
      /\ pc[t] = "delivered" /\ pc'[t] = "leaving" /\ d \in Convs
      /\ \A u \in Turns : u # t => pc'[u] = pc[u]
  BY DEF Record, Goes, Typed, run
<1>2. manifest' = manifest \/ manifest' = [manifest EXCEPT ![d] = Recorded(t, d)]
  BY DEF Record
<1>3. ManifestSent'
  <2> SUFFICES ASSUME NEW c \in Convs, c \notin raced \cup stray, NEW f \in Files, manifest'[c][f] # 0
               PROVE  <<f, manifest'[c][f]>> \in sent
    BY <1>1 DEF SentInv, ManifestSent
  <2>1. CASE manifest'[c] = manifest[c]
    BY <2>1 DEF SentInv, ManifestSent
  <2>2. CASE c = d /\ manifest'[c] = Recorded(t, d)
    <3>1. f \in (AlreadyPersisted(d) \cup delivered[t]) \cap Present(d)
          /\ manifest'[c][f] = content[d][f]
      BY <2>2 DEF Recorded
    <3>2. CASE f \in AlreadyPersisted(d)
      BY <2>2, <3>1, <3>2 DEF SentInv, AlreadyPersisted, Present, ManifestSent
    <3>3. CASE f \in delivered[t]
      BY <1>1, <2>2, <3>1, <3>3 DEF SentInv, DeliveredSent
    <3>4. QED
      BY <3>1, <3>2, <3>3
  <2>3. QED
    BY <1>1, <1>2, <2>1, <2>2 DEF Typed
<1>4. BoxStarted'
  BY <1>1 DEF SentInv, BoxStarted
<1>5. DeliveredSent'
  BY <1>1 DEF SentInv, DeliveredSent, Present
<1>6. QED
  BY <1>3, <1>4, <1>5 DEF SentInv

LEMMA StepSent == Typed /\ LockInv /\ SentInv /\ [Next]_vars => SentInv'
<1> SUFFICES ASSUME Typed, Claims, SentInv, [Next]_vars PROVE SentInv'
  BY DEF LockInv
<1>1. ASSUME NEW t \in Turns, Step(t) PROVE SentInv'
  BY <1>1, QuietSteps, QuietSent, SweepUnlinksSent, WritesSent, BoxEndsSent, DeliverSent,
     RecordSent DEF Step
<1>2. CASE (\E c \in Convs : LockAges(c) \/ DirAges(c)) \/ UNCHANGED vars
  <2>1. UNCHANGED <<conv, pc, content, manifest, box, delivered, sent, raced, stray>>
    BY <1>2 DEF LockAges, DirAges, vars, disk, run, past
  <2>2. QED
    BY <2>1 DEF SentInv, ManifestSent, BoxStarted, DeliveredSent, Present
<1>3. QED
  BY <1>1, <1>2 DEF Next

(* While no claim is taken away and no container outlives its turn, a       *)
(* version of a file that is left out of the artifacts as sent before was   *)
(* sent before.                                                             *)
THEOREM NothingWithheld == Spec => []NeverWithheld
<1>1. Init => SentInv
  BY DEF Init, SentInv, ManifestSent, BoxStarted, DeliveredSent, Nothing
<1>2. Typed /\ SentInv => NeverWithheld
  BY DEF Typed, SentInv, ManifestSent, NeverWithheld, AlreadyPersisted, Present
<1>3. QED
  BY <1>1, <1>2, LockCorrect, StepSent, PTL DEF Spec

-----------------------------------------------------------------------------
(* What was sent is remembered.                                            *)

(* Edits are numbered: no two directories hold the same version of a file,  *)
(* and the next version was never sent.                                     *)
Numbered ==
    /\ \A c \in Convs, f \in Files : content[c][f] <= edits
    /\ \A f \in Files, n \in Nat : <<f, n>> \in sent => n <= edits
    /\ \A c, d \in Convs, f \in Files :
          c # d /\ content[c][f] = content[d][f] => content[c][f] = 0

(* By the manifest, or by the turn that has just delivered it. *)
Remembered(c, f) ==
    \/ manifest[c][f] = content[c][f]
    \/ \E u \in Turns : conv[u] = c /\ pc[u] = "delivered" /\ f \in delivered[u]

Once ==
    \A c \in Convs \ (raced \cup lapsed) : \A f \in Files :
       content[c][f] # 0 /\ <<f, content[c][f]>> \in sent => Remembered(c, f)

OnceInv == Numbered /\ Once

(* What most steps do to versions and what remembers them: nothing, but a   *)
(* turn that leaves between sending and recording says so.                  *)
Calm(t) ==
    /\ UNCHANGED <<conv, content, manifest, delivered, sent, edits>>
    /\ raced \subseteq raced' /\ lapsed \subseteq lapsed'
    /\ \A u \in Turns \ {t} : pc'[u] = pc[u]
    /\ pc[t] = "delivered" => pc'[t] = "delivered" \/ conv[t] \in lapsed'

LEMMA CalmOnce == ASSUME OnceInv, NEW t \in Turns, Calm(t) PROVE OnceInv'
<1>1. Numbered'
  BY DEF Calm, OnceInv, Numbered
<1>2. Once'
  <2> SUFFICES ASSUME NEW c \in Convs, c \notin raced', c \notin lapsed', NEW f \in Files,
                      content[c][f] # 0, <<f, content[c][f]>> \in sent
               PROVE  Remembered(c, f)'
    BY DEF Calm, Once
  <2>1. Remembered(c, f)
    BY DEF Calm, OnceInv, Once
  <2>2. QED
    BY <2>1 DEF Calm, Remembered
<1>3. QED
  BY <1>1, <1>2 DEF OnceInv

LEMMA CalmSteps ==
  ASSUME Typed, NEW t \in Turns,
         \/ BeginSweep(t) \/ SweepLooks(t) \/ SweepLists(t) \/ EndSweep(t)
         \/ MakeDir(t) \/ MakeDirFails(t) \/ LookForLock(t) \/ DateLock(t)
         \/ BreakLock(t) \/ CreateLock(t) \/ GivesUp(t) \/ BoxEnds(t) \/ BoxOutlives(t)
         \/ Aborts(t) \/ Release(t) \/ Crash(t)
  PROVE  Calm(t)
<1> USE DEF Calm, Typed, Goes, disk, run, past
<1>1. CASE BeginSweep(t) \/ SweepLists(t) \/ EndSweep(t)
  BY <1>1 DEF BeginSweep, SweepLists, EndSweep
<1>2. CASE SweepLooks(t)
  BY <1>2 DEF SweepLooks
<1>3. CASE MakeDir(t) \/ MakeDirFails(t)
  BY <1>3 DEF MakeDir, MakeDirFails
<1>4. CASE LookForLock(t) \/ DateLock(t) \/ GivesUp(t)
  BY <1>4 DEF LookForLock, DateLock, GivesUp
<1>5. CASE BreakLock(t) \/ Release(t)
  BY <1>5 DEF BreakLock, Release
<1>6. CASE CreateLock(t)
  BY <1>6 DEF CreateLock
<1>7. CASE BoxEnds(t) \/ BoxOutlives(t)
  BY <1>7 DEF BoxEnds, BoxOutlives
<1>8. CASE Aborts(t) \/ Crash(t)
  BY <1>8 DEF Aborts, Crash
<1>9. QED
  BY <1>1, <1>2, <1>3, <1>4, <1>5, <1>6, <1>7, <1>8

(* What a sweep unlinks is gone, and with the manifest the record is.       *)
LEMMA SweepUnlinksOnce ==
  ASSUME Typed, OnceInv, NEW t \in Turns, SweepUnlinks(t) PROVE OnceInv'
<1>1. /\ \A c \in Convs, f \in Files : content'[c][f] \in {content[c][f], 0}
      /\ \A c \in Convs : manifest'[c] = manifest[c] \/ c \in lapsed'
      /\ raced \subseteq raced' /\ lapsed \subseteq lapsed'
      /\ UNCHANGED <<conv, pc, delivered, sent, edits>>
  <2>1. PICK c \in doomed[t], e \in listed[t] :
          /\ Unlinked(t, c, e) \/ UNCHANGED <<content, manifest, lapsed, raced>>
          /\ UNCHANGED <<conv, pc, run, sent, edits>>
    BY DEF SweepUnlinks, Unlinked
  <2>2. CASE Unlinked(t, c, e)
    BY <2>1, <2>2 DEF Unlinked, Typed, run
  <2>3. CASE UNCHANGED <<content, manifest, lapsed, raced>>
    BY <2>1, <2>3 DEF run
  <2>4. QED
    BY <2>1, <2>2, <2>3
<1>2. content \in [Convs -> [Files -> Nat]] /\ edits \in Nat
  BY DEF Typed
<1>3. Numbered'
  BY <1>1, <1>2 DEF OnceInv, Numbered
<1>4. Once'
  <2> SUFFICES ASSUME NEW c \in Convs, c \notin raced, c \notin lapsed', NEW f \in Files,
                      content'[c][f] # 0, <<f, content'[c][f]>> \in sent
               PROVE  Remembered(c, f)'
    BY <1>1 DEF Once
  <2>1. content'[c][f] = content[c][f] /\ manifest'[c] = manifest[c] /\ c \notin lapsed
    BY <1>1
  <2>2. Remembered(c, f)
    BY <2>1 DEF OnceInv, Once
  <2>3. QED
    BY <1>1, <2>1, <2>2 DEF Remembered
<1>5. QED
  BY <1>3, <1>4 DEF OnceInv

(* A directory that goes was empty: there is nothing to remember.           *)
LEMMA SweepRemovesOnce ==
  ASSUME Typed, OnceInv, NEW t \in Turns, SweepRemoves(t) PROVE OnceInv'
<1>1. PICK d \in doomed[t] :
        /\ pc[t] = "removing" /\ pc' = [pc EXCEPT ![t] = "sweeping"]
        /\ (Entries(d) = {} /\ lapsed' = lapsed \ {d}) \/ UNCHANGED lapsed
        /\ UNCHANGED <<conv, content, manifest, delivered, sent, edits, raced>>
  BY DEF SweepRemoves, Goes
<1>2. /\ \A u \in Turns : u # t => pc'[u] = pc[u]
      /\ \A c \in Convs : c \notin lapsed' => c \notin lapsed \/ Present(c) = {}
  BY <1>1 DEF Entries, Typed
<1>3. Numbered'
  BY <1>1 DEF OnceInv, Numbered
<1>4. Once'
  <2> SUFFICES ASSUME NEW c \in Convs, c \notin raced, c \notin lapsed', NEW f \in Files,
                      content[c][f] # 0, <<f, content[c][f]>> \in sent
               PROVE  Remembered(c, f)'
    BY <1>1 DEF Once
  <2>1. c \notin lapsed
    BY <1>2 DEF Present
  <2>2. Remembered(c, f)
    BY <2>1 DEF OnceInv, Once
  <2>3. QED
    BY <1>1, <1>2, <2>2 DEF Remembered
<1>5. QED
  BY <1>3, <1>4 DEF OnceInv

(* What a container writes, or a turn is attached, is a version that was    *)
(* never sent.                                                              *)
LEMMA WritesOnce ==
  ASSUME Typed, OnceInv, NEW t \in Turns, Start(t) \/ BoxWrites(t) PROVE OnceInv'
<1> DEFINE d == conv[t]
<1>1. /\ UNCHANGED <<conv, manifest, delivered, sent, raced, lapsed>>
      /\ \A u \in Turns : pc[u] = "delivered" => pc'[u] = "delivered"
      /\ d \in Convs /\ edits \in Nat
  BY DEF Start, BoxWrites, Goes, Typed, run
<1>2. /\ edits' \in Nat /\ edits <= edits'
      /\ \A c \in Convs, f \in Files :
            \/ content'[c][f] = content[c][f]
            \/ c = d /\ content'[c][f] = edits + 1 /\ edits + 1 <= edits'
  <2>1. CASE Start(t)
    <3>1. PICK S \in SUBSET Files :
            /\ edits' = edits + Cardinality(S)
            /\ content' = [content EXCEPT ![d] =
                  [f \in Files |-> IF f \in S /\ exists[d] THEN edits + 1 ELSE @[f]]]
      BY <2>1 DEF Start
    <3>2. IsFiniteSet(S) /\ Cardinality(S) \in Nat
      BY FS_CardinalityType, DirectoryConstants, FS_Subset
    <3>3. \A f \in S : Cardinality(S) # 0
      BY <3>2, FS_EmptySet
    <3>4. \A c \in Convs, f \in Files :
            \/ content'[c][f] = content[c][f]
            \/ c = d /\ content'[c][f] = edits + 1 /\ f \in S
      BY <1>1, <3>1 DEF Typed
    <3>5. QED
      BY <1>1, <3>1, <3>2, <3>3, <3>4
  <2>2. CASE BoxWrites(t)
    BY <1>1, <2>2 DEF BoxWrites, Typed
  <2>3. QED
    BY <2>1, <2>2
<1>3. content \in [Convs -> [Files -> Nat]]
  BY DEF Typed
<1>4. Numbered'
  <2>1. \A c \in Convs, f \in Files : content'[c][f] <= edits'
    BY <1>1, <1>2, <1>3 DEF OnceInv, Numbered
  <2>2. \A f \in Files, n \in Nat : <<f, n>> \in sent => n <= edits'
    BY <1>1, <1>2 DEF OnceInv, Numbered
  <2>3. \A b, c \in Convs, f \in Files :
          b # c /\ content'[b][f] = content'[c][f] => content'[b][f] = 0
    BY <1>1, <1>2, <1>3 DEF OnceInv, Numbered
  <2>4. QED
    BY <1>1, <2>1, <2>2, <2>3 DEF Numbered
<1>5. Once'
  <2> SUFFICES ASSUME NEW c \in Convs, c \notin raced, c \notin lapsed, NEW f \in Files,
                      content'[c][f] # 0, <<f, content'[c][f]>> \in sent
               PROVE  Remembered(c, f)'
    BY <1>1 DEF Once
  <2>1. content'[c][f] = content[c][f]
    <3>1. <<f, edits + 1>> \notin sent
      BY <1>1 DEF OnceInv, Numbered
    <3>2. QED
      BY <1>2, <3>1
  <2>2. Remembered(c, f)
    BY <2>1 DEF OnceInv, Once
  <2>3. QED
    BY <1>1, <2>1, <2>2 DEF Remembered
<1>6. QED
  BY <1>4, <1>5 DEF OnceInv

LEMMA DeliverOnce ==
  ASSUME Typed, OnceInv, NEW t \in Turns, Deliver(t) PROVE OnceInv'
<1> DEFINE d == conv[t]
<1>1. PICK D \in SUBSET Present(d) :
        /\ delivered' = [delivered EXCEPT ![t] = D]
        /\ sent' = sent \cup {<<f, content[d][f]>> : f \in D}
  BY DEF Deliver
<1>2. /\ UNCHANGED <<conv, content, manifest, edits, raced, lapsed>>
      /\ pc[t] = "ended" /\ pc'[t] = "delivered" /\ delivered'[t] = D
      /\ \A u \in Turns : u # t => pc'[u] = pc[u] /\ delivered'[u] = delivered[u]
      /\ d \in Convs /\ D \subseteq Files /\ content \in [Convs -> [Files -> Nat]]
      /\ \A f \in D : content[d][f] # 0
  BY <1>1 DEF Deliver, Goes, Typed, disk, Present
<1>3. Numbered'
  <2>1. \A f \in Files, n \in Nat : <<f, n>> \in sent' => n <= edits
    BY <1>1, <1>2 DEF OnceInv, Numbered
  <2>2. QED
    BY <1>2, <2>1 DEF OnceInv, Numbered
<1>4. Once'
  <2> SUFFICES ASSUME NEW c \in Convs, c \notin raced, c \notin lapsed, NEW f \in Files,
                      content[c][f] # 0, <<f, content[c][f]>> \in sent'
               PROVE  Remembered(c, f)'
    BY <1>2 DEF Once
  <2>1. CASE <<f, content[c][f]>> \in sent
    <3>1. Remembered(c, f)
      BY <2>1 DEF OnceInv, Once
    <3>2. QED
      BY <1>2, <3>1 DEF Remembered
  <2>2. CASE <<f, content[c][f]>> \notin sent
    <3>1. f \in D /\ content[c][f] = content[d][f]
      BY <1>1, <2>2
    <3>2. c = d
      BY <1>2, <3>1 DEF OnceInv, Numbered
    <3>3. QED
      BY <1>2, <3>1, <3>2 DEF Remembered
  <2>3. QED
    BY <2>1, <2>2
<1>5. QED
  BY <1>3, <1>4 DEF OnceInv

(* The manifest takes what the one worker of the directory delivered, and   *)
(* keeps what it said of what is unchanged.                                 *)
LEMMA RecordOnce ==
  ASSUME Typed, Claims, OnceInv, NEW t \in Turns, Record(t) PROVE OnceInv'
<1> DEFINE d == conv[t]
<1>1. /\ UNCHANGED <<conv, content, delivered, sent, edits, raced>>
      /\ pc[t] = "delivered" /\ d \in Convs /\ lapsed \subseteq lapsed'
      /\ \A u \in Turns : u # t => pc'[u] = pc[u]
      /\ content \in [Convs -> [Files -> Nat]]
  BY DEF Record, Goes, Typed, run
<1>2. /\ d \in lapsed' \/ manifest'[d] = Recorded(t, d)
      /\ \A c \in Convs : c # d => manifest'[c] = manifest[c]
  BY <1>1 DEF Record, Typed
<1>3. Numbered'
  BY <1>1 DEF OnceInv, Numbered
<1>4. Once'
  <2> SUFFICES ASSUME NEW c \in Convs, c \notin raced, c \notin lapsed', NEW f \in Files,
                      content[c][f] # 0, <<f, content[c][f]>> \in sent
               PROVE  Remembered(c, f)'
    BY <1>1 DEF Once
  <2>1. Remembered(c, f)
    BY <1>1 DEF OnceInv, Once
  <2>2. CASE c # d
    BY <1>1, <1>2, <2>1, <2>2 DEF Remembered
  <2>3. CASE c = d
    <3>1. f \in Present(d) /\ manifest'[d] = Recorded(t, d)
      BY <1>2, <2>3 DEF Present
    <3>2. f \in AlreadyPersisted(d) \cup delivered[t]
      <4>1. CASE manifest[c][f] = content[c][f]
        BY <2>3, <3>1, <4>1 DEF AlreadyPersisted
      <4>2. CASE \E u \in Turns : conv[u] = c /\ pc[u] = "delivered" /\ f \in delivered[u]
        <5>1. PICK u \in Turns : conv[u] = c /\ pc[u] = "delivered" /\ f \in delivered[u]
          BY <4>2
        <5>2. u = t
          BY <1>1, <2>3, <5>1, OneWorker DEF Working
        <5>3. QED
          BY <5>1, <5>2
      <4>3. QED
        BY <2>1, <4>1, <4>2 DEF Remembered
    <3>3. manifest'[d][f] = content[d][f]
      BY <3>1, <3>2 DEF Recorded
    <3>4. QED
      BY <1>1, <2>3, <3>3 DEF Remembered
  <2>4. QED
    BY <2>2, <2>3
<1>5. QED
  BY <1>3, <1>4 DEF OnceInv

LEMMA StepOnce == Typed /\ LockInv /\ OnceInv /\ [Next]_vars => OnceInv'
<1> SUFFICES ASSUME Typed, Claims, OnceInv, [Next]_vars PROVE OnceInv'
  BY DEF LockInv
<1>1. ASSUME NEW t \in Turns, Step(t) PROVE OnceInv'
  BY <1>1, CalmSteps, CalmOnce, SweepUnlinksOnce, SweepRemovesOnce, WritesOnce, DeliverOnce, RecordOnce DEF Step
<1>2. CASE (\E c \in Convs : LockAges(c) \/ DirAges(c)) \/ UNCHANGED vars
  <2>1. UNCHANGED <<conv, pc, content, manifest, delivered, sent, edits, raced, lapsed>>
    BY <1>2 DEF LockAges, DirAges, vars, disk, run, past
  <2>2. QED
    BY <2>1 DEF OnceInv, Numbered, Once, Remembered
<1>3. QED
  BY <1>1, <1>2 DEF Next

(* A file nobody changed is not sent a second time, unless the record of    *)
(* it was not written or was swept away, or a claim was taken away.         *)
THEOREM NothingResent == Spec => SentOnce
<1>1. Init => OnceInv
  BY DEF Init, OnceInv, Numbered, Once, Nothing
<1>2. Spec => [](Typed /\ LockInv /\ OnceInv)
  BY <1>1, LockCorrect, StepOnce, PTL DEF Spec
<1>3. ASSUME Typed, Claims, OnceInv, NEW t \in Turns, NEW f \in Files,
             Deliver(t), f \in delivered'[t], conv[t] \notin raced \cup lapsed
      PROVE  <<f, content[conv[t]][f]>> \notin sent
  <2> DEFINE d == conv[t]
  <2>1. /\ f \in Present(d) /\ f \notin AlreadyPersisted(d)
        /\ pc[t] = "ended" /\ d \in Convs
    BY <1>3 DEF Deliver, Goes, Typed
  <2>2. content[d][f] # 0 /\ manifest[d][f] # content[d][f]
    BY <2>1 DEF Present, AlreadyPersisted
  <2>3. \A u \in Turns : conv[u] = d => pc[u] # "delivered"
    BY <1>3, <2>1, OneWorker DEF Working
  <2>4. ~Remembered(d, f)
    BY <2>2, <2>3 DEF Remembered
  <2>5. QED
    BY <1>3, <2>1, <2>2, <2>4 DEF OnceInv, Once
<1>4. Typed /\ LockInv /\ OnceInv =>
        [\A t \in Turns, f \in Files :
            Deliver(t) /\ f \in delivered'[t] /\ conv[t] \notin raced \cup lapsed
               => <<f, content[conv[t]][f]>> \notin sent]_vars
  BY <1>3 DEF LockInv
<1>5. QED
  BY <1>2, <1>4, PTL DEF SentOnce
=============================================================================
