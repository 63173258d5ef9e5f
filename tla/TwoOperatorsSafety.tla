------------------------- MODULE TwoOperatorsSafety -------------------------
(***************************************************************************)
(* Safety of two processes of the operator at once, for any cluster. What  *)
(* is known of one process is kept by its own steps (ConfigSyncSafety) and *)
(* by those of the other, of which it hears. So both read versions that    *)
(* are old or current, and neither takes from users what is theirs.        *)
(***************************************************************************)
EXTENDS TwoOperators, FinalizerSafety

TwoInv == CsInv /\ ObjVersions /\ Other!CsInv /\ Other!ObjVersions
TwoLoops == TwoInv /\ LoopInv /\ Other!LoopInv
TwoContents == TwoInv /\ ContentInv /\ Other!ContentInv

-----------------------------------------------------------------------------
\* The second process lives in the same cluster.

LEMMA SameCluster ==
  /\ Other!Key = Key /\ Other!Object = Object
  /\ Other!ConfigSync = ConfigSync /\ Other!ConfigSyncSpec = ConfigSyncSpec
  /\ Other!ConfigSyncKinds = ConfigSyncKinds
BY DEF Key, Object, Payload, ConfigSync, ConfigSyncSpec, ConfigSyncKinds,
       Selector, Status, NamespaceStatus, Other!Key, Other!Object,
       Other!Payload, Other!ConfigSync, Other!ConfigSyncSpec,
       Other!ConfigSyncKinds, Other!Selector, Other!Status,
       Other!NamespaceStatus

\* What is assumed of the constants holds for it too.
LEMMA SameAssumptions ==
  /\ Other!ApiAssumption /\ Other!NoObjAssumption /\ Other!WebhookAssumption
  /\ Other!BoundsAssumption /\ Other!InitAssumption
<1>1. Other!ApiAssumption /\ Other!NoObjAssumption /\ Other!WebhookAssumption
  BY SameCluster, ApiAssumption, NoObjAssumption, WebhookAssumption
     DEF Other!ApiAssumption, Other!NoObjAssumption, Other!WebhookAssumption
<1>2. Other!BoundsAssumption /\ Other!InitAssumption
  BY SameCluster, BoundsAssumption, InitAssumption
     DEF Other!BoundsAssumption, Other!InitAssumption, HasSyncLabel,
         Other!HasSyncLabel
<1> QED BY <1>1, <1>2

\* Each sees the API server as the other does.
LEMMA SameServer ==
  /\ TypeInv' => ServerTypes'
  /\ Other!TypeInv' => Other!ServerTypes'
  /\ ServerTypes' <=> Other!ServerTypes'
  /\ Moves <=> Other!Moves
  /\ \A o : HasSyncLabel(o) <=> Other!HasSyncLabel(o)
<1>1. \A S : Cell(S) = Other!Cell(S)
  BY DEF Cell, Other!Cell
<1> QED
  BY <1>1, SameCluster
     DEF TypeInv, TypeOK, ApiTypeOK, ServerTypes, Moves, HasSyncLabel,
         Other!TypeInv, Other!TypeOK, Other!ApiTypeOK, Other!ServerTypes,
         Other!Moves, Other!HasSyncLabel

\* What is known of the API server is known to both.
LEMMA SameKnowledge ==
  /\ DeletingHasFinalizer <=> Other!DeletingHasFinalizer
  /\ DeletingHasFinalizer' <=> Other!DeletingHasFinalizer'
  /\ Labelled' <=> Other!Labelled'
  /\ CopyProvenance' <=> Other!CopyProvenance'
BY SameCluster, SameServer
   DEF DeletingHasFinalizer, Exists, Labelled, CopyProvenance, Copies,
       HasSyncLabel, Other!DeletingHasFinalizer, Other!Exists, Other!Labelled,
       Other!CopyProvenance, Other!Copies, Other!HasSyncLabel

-----------------------------------------------------------------------------
\* What is known of both is kept by the steps of either.

LEMMA TwoInitInv == TwoInit => TwoInv
<1>1. Other!Init => Other!CsInv /\ Other!ObjVersions
  BY SameAssumptions, Other!CsInit, Other!ObjInit DEF Other!ObjInv
<1> QED BY <1>1, CsInit, ObjInit DEF TwoInit, TwoInv, ObjInv

\* A step of the first process, as each of them sees it.
LEMMA FirstSteps ==
  ASSUME TwoInv, FirstProcess
  PROVE  TwoInv' /\ Other!Moves /\ Other!ServerTypes'
<1>1. /\ CsInv /\ ObjVersions /\ Other!CsInv /\ Other!ObjVersions
      /\ [Next]_vars /\ Other!Hears
  BY DEF TwoInv, FirstProcess
<1>2. CsInv' /\ ObjVersions'
  BY <1>1, CsInvSteps, ObjVersionsSteps DEF ObjInv, CsInv
<1>3. Moves /\ ServerTypes'
  BY <1>1, <1>2, StepsMove, SameServer DEF CsInv
<1>4. Other!Moves /\ Other!ServerTypes'
  BY <1>3, SameServer
<1>5. Other!CsInv' /\ Other!ObjVersions'
  BY <1>1, <1>4, SameAssumptions, Other!HearsSteps
<1> QED BY <1>2, <1>4, <1>5 DEF TwoInv

LEMMA SecondNext ==
  ASSUME SecondProcess
  PROVE  [Other!Next]_Other!vars
BY DEF SecondProcess, Other!Next

\* A step of the second process.
LEMMA SecondSteps ==
  ASSUME TwoInv, SecondProcess
  PROVE  TwoInv' /\ Moves /\ ServerTypes'
<1>1. /\ CsInv /\ ObjVersions /\ Other!CsInv /\ Other!ObjVersions
      /\ [Other!Next]_Other!vars /\ Hears
  BY SecondNext DEF TwoInv, SecondProcess
<1>2. Other!CsInv' /\ Other!ObjVersions'
  BY <1>1, SameAssumptions, Other!CsInvSteps, Other!ObjVersionsSteps
     DEF Other!ObjInv, Other!CsInv
<1>3. Other!Moves /\ Other!ServerTypes'
  BY <1>1, <1>2, SameAssumptions, Other!StepsMove, SameServer DEF Other!CsInv
<1>4. Moves /\ ServerTypes'
  BY <1>3, SameServer
<1>5. CsInv' /\ ObjVersions'
  BY <1>1, <1>4, HearsSteps
<1> QED BY <1>2, <1>4, <1>5 DEF TwoInv

\* No step at all.
LEMMA NoSteps ==
  ASSUME TwoInv, UNCHANGED twoVars
  PROVE  TwoInv'
<1>1. /\ CsInv /\ ObjVersions /\ Other!CsInv /\ Other!ObjVersions
      /\ [Next]_vars /\ [Other!Next]_Other!vars
  BY DEF TwoInv, twoVars
<1>2. CsInv' /\ ObjVersions'
  BY <1>1, CsInvSteps, ObjVersionsSteps DEF ObjInv, CsInv
<1>3. Other!CsInv' /\ Other!ObjVersions'
  BY <1>1, SameAssumptions, Other!CsInvSteps, Other!ObjVersionsSteps
     DEF Other!ObjInv, Other!CsInv
<1> QED BY <1>2, <1>3 DEF TwoInv

\* What either process has read is older than what the API server holds or is
\* what it holds, whichever of them wrote it.
LEMMA TwoInvariant == TwoSpec => []TwoInv
<1>1. TwoInv /\ [TwoNext]_twoVars => TwoInv'
  BY FirstSteps, SecondSteps, NoSteps DEF TwoNext
<1> QED BY <1>1, TwoInitInv, PTL DEF TwoSpec

-----------------------------------------------------------------------------
\* With two processes that read behind each other's backs, neither turns a
\* user's object into a copy (UserObjectNeverAdopted).
THEOREM TwoNeverAdopt == TwoSpec => UserObjectNeverAdopted
<1> DEFINE Safe ==
      \A k \in Key :
        /\ store[k].obj # NoObj /\ ~HasSyncLabel(store[k].obj)
        /\ store'[k].obj # NoObj
        => ~HasSyncLabel(store'[k].obj)
<1>1. ASSUME TwoInv, [Next]_vars
      PROVE  Safe
  BY <1>1, NeverAdopted DEF TwoInv, CsInv, ObjInv
<1>2. ASSUME TwoInv, [Other!Next]_Other!vars
      PROVE  Safe
  <2>1. Other!ObjInv
    BY <1>2 DEF TwoInv, Other!CsInv, Other!ObjInv
  <2> QED
    BY <1>2, <2>1, SameAssumptions, SameCluster, SameServer, Other!NeverAdopted
<1>3. TwoInv /\ [TwoNext]_twoVars => [Safe]_vars
  <2> HIDE DEF Safe
  <2> QED BY <1>1, <1>2, SecondNext DEF TwoNext, FirstProcess, twoVars
<1> QED BY <1>3, TwoInvariant, PTL DEF TwoSpec, UserObjectNeverAdopted

\* Nor does either undo what a user wrote to a ConfigSync (UserEditsSurvive).
THEOREM TwoKeepEdits == TwoSpec => UserEditsSurvive
<1> DEFINE Safe ==
      ops' = ops =>
        \A c \in Syncs : Exists(c) =>
          IF cs'[c].obj = NoObj THEN cs[c].obj.deleting
          ELSE /\ cs'[c].obj.spec = cs[c].obj.spec
               /\ cs'[c].obj.deleting = cs[c].obj.deleting
               /\ cs[c].obj.finalizer => cs'[c].obj.finalizer
<1>1. ASSUME TwoInv, [Next]_vars
      PROVE  Safe
  BY <1>1, EditsKept DEF TwoInv, Preserves
<1>2. ASSUME TwoInv, [Other!Next]_Other!vars
      PROVE  Safe
  BY <1>2, SameAssumptions, Other!EditsKept
     DEF TwoInv, Exists, Other!Exists, Other!Preserves
<1>3. TwoInv /\ [TwoNext]_twoVars => [Safe]_vars
  <2> HIDE DEF Safe
  <2> QED BY <1>1, <1>2, SecondNext DEF TwoNext, FirstProcess, twoVars
<1> QED BY <1>3, TwoInvariant, PTL DEF TwoSpec, UserEditsSurvive

-----------------------------------------------------------------------------
\* Each process keeps its own periodic sync going.

LEMMA TwoLoopsSteps ==
  ASSUME TwoLoops, [TwoNext]_twoVars
  PROVE  LoopInv' /\ Other!LoopInv'
<1>0. TwoInv /\ LoopInv /\ Other!LoopInv
  BY DEF TwoLoops
<1>1. CASE FirstProcess
  <2>1. [Next]_vars /\ Other!Hears
    BY <1>1 DEF FirstProcess
  <2>2. LoopInv'
    BY <1>0, <2>1, LoopInvSteps
  <2>3. /\ Other!CsInv' /\ Other!Moves /\ Other!ServerTypes'
        /\ Other!DeletingHasFinalizer'
    BY <1>0, <1>1, <2>2, FirstSteps, SameKnowledge DEF TwoInv, LoopInv
  <2> QED BY <1>0, <2>1, <2>2, <2>3, SameAssumptions, Other!HearsLoop
<1>2. CASE SecondProcess
  <2>1. [Other!Next]_Other!vars /\ Hears
    BY <1>2, SecondNext DEF SecondProcess
  <2>2. Other!LoopInv'
    BY <1>0, <2>1, SameAssumptions, Other!LoopInvSteps
  <2>3. CsInv' /\ Moves /\ ServerTypes' /\ DeletingHasFinalizer'
    BY <1>0, <1>2, <2>2, SecondSteps, SameKnowledge
       DEF TwoInv, Other!LoopInv
  <2> QED BY <1>0, <2>1, <2>2, <2>3, HearsLoop
<1>3. CASE UNCHANGED twoVars
  <2>1. [Next]_vars /\ [Other!Next]_Other!vars
    BY <1>3 DEF twoVars
  <2> QED BY <1>0, <2>1, SameAssumptions, LoopInvSteps, Other!LoopInvSteps
<1> QED BY <1>1, <1>2, <1>3 DEF TwoNext

LEMMA TwoLoopsInvariant == TwoSpec => []TwoLoops
<1>1. Other!Init => Other!LoopInv
  BY SameAssumptions, Other!LoopInit
<1>2. TwoInit => LoopInv /\ Other!LoopInv
  BY <1>1, LoopInit DEF TwoInit
<1>3. TwoInv /\ LoopInv /\ Other!LoopInv => TwoLoops
  BY DEF TwoLoops
<1>4. TwoLoops /\ [TwoNext]_twoVars => (LoopInv /\ Other!LoopInv)'
  BY TwoLoopsSteps
<1> QED BY <1>2, <1>3, <1>4, TwoInvariant, PTL DEF TwoSpec

\* In neither process does a ConfigSync fall out of the periodic sync, whatever
\* the other one writes or removes (PeriodicLoopAlive, of each).
THEOREM TwoLoopsNeverDie ==
  TwoSpec => [](PeriodicLoopAlive /\ Other!PeriodicLoopAlive)
<1>1. TwoLoops => PeriodicLoopAlive /\ Other!PeriodicLoopAlive
  BY DEF TwoLoops, LoopInv, Other!LoopInv
<1> QED BY <1>1, TwoLoopsInvariant, PTL

-----------------------------------------------------------------------------
\* The copies both make

\* What is in the namespaces is the same for both.
LEMMA SameHomes ==
  /\ HomeMade' => \A k \in Key :
       LET o == store'[k].obj
       IN  o # NoObj /\ ~Other!HasSyncLabel(o) => o.data.at = k.ns
  /\ Other!HomeMade' => \A k \in Key :
       LET o == store'[k].obj
       IN  o # NoObj /\ ~HasSyncLabel(o) => o.data.at = k.ns
<1>1. ASSUME HomeMade', NEW k \in Key, store'[k].obj # NoObj,
             ~Other!HasSyncLabel(store'[k].obj)
      PROVE  store'[k].obj.data.at = k.ns
  <2>1. [key |-> k, cell |-> store'[k]] \in ObjNow'
    BY DEF ObjNow
  <2>2. PICK r \in ObjNow' : r.key = k /\ r.cell = store'[k]
    BY <2>1
  <2> QED
    BY <1>1, <2>2 DEF HomeMade, AtHome, HasSyncLabel, Other!HasSyncLabel
<1>2. ASSUME Other!HomeMade', NEW k \in Key, store'[k].obj # NoObj,
             ~HasSyncLabel(store'[k].obj)
      PROVE  store'[k].obj.data.at = k.ns
  <2>1. [key |-> k, cell |-> store'[k]] \in Other!ObjNow'
    BY SameCluster DEF Other!ObjNow
  <2>2. PICK r \in Other!ObjNow' : r.key = k /\ r.cell = store'[k]
    BY <2>1
  <2> QED
    BY <1>2, <2>2
       DEF Other!HomeMade, Other!AtHome, HasSyncLabel, Other!HasSyncLabel
<1> QED BY <1>1, <1>2

LEMMA TwoContentsSteps ==
  ASSUME Protected, TwoContents, [TwoNext]_twoVars
  PROVE  ContentInv' /\ Other!ContentInv'
<1>0. /\ TwoInv /\ ContentInv /\ Other!ContentInv /\ Other!Protected
      /\ Other!TypeInv /\ TypeInv /\ HomeMade /\ Routed
      /\ Other!HomeMade /\ Other!Routed
  BY DEF TwoContents, TwoInv, CsInv, ContentInv, Protected, Other!CsInv,
         Other!ContentInv, Other!Protected
<1>1. CASE FirstProcess
  <2>1. [Next]_vars /\ Other!Hears
    BY <1>1 DEF FirstProcess
  <2>2. ContentInv'
    BY <1>0, <2>1, ContentSteps
  <2>3. Other!ObjInv' /\ Other!ServerTypes'
    BY <1>0, <1>1, FirstSteps DEF TwoInv, Other!CsInv, Other!ObjInv
  <2>4. Other!Labelled' /\ Other!CopyProvenance'
    BY <2>2, SameKnowledge DEF ContentInv
  <2>5. Other!HomeMade' /\ Other!Routed'
    BY <1>0, <2>1, <2>2, <2>3, SameHomes, SameCluster, SameAssumptions,
       Other!HearsContent DEF ContentInv
  <2> QED BY <2>2, <2>3, <2>4, <2>5 DEF Other!ContentInv
<1>2. CASE SecondProcess
  <2>1. [Other!Next]_Other!vars /\ Hears
    BY <1>2, SecondNext DEF SecondProcess
  <2>2. Other!ContentInv'
    BY <1>0, <2>1, SameAssumptions, Other!ContentSteps
  <2>3. ObjInv' /\ ServerTypes'
    BY <1>0, <1>2, SecondSteps DEF TwoInv, CsInv, ObjInv
  <2>4. Labelled' /\ CopyProvenance'
    BY <2>2, SameKnowledge DEF Other!ContentInv
  <2>5. HomeMade' /\ Routed'
    BY <1>0, <2>1, <2>2, <2>3, SameHomes, HearsContent DEF Other!ContentInv
  <2> QED BY <2>2, <2>3, <2>4, <2>5 DEF ContentInv
<1>3. CASE UNCHANGED twoVars
  <2>1. [Next]_vars /\ [Other!Next]_Other!vars
    BY <1>3 DEF twoVars
  <2> QED BY <1>0, <2>1, SameAssumptions, ContentSteps, Other!ContentSteps
<1> QED BY <1>1, <1>2, <1>3 DEF TwoNext

\* Copies hold what their labels say though two processes write them, each
\* from reads of its own (CopyProvenance).
THEOREM TwoCopyFromTheirSource ==
  ASSUME Protected PROVE TwoSpec => []CopyProvenance
<1>1. Other!Init => Other!ContentInv
  BY SameAssumptions, Other!ContentInit
<1>2. TwoInit => ContentInv /\ Other!ContentInv
  BY <1>1, ContentInit DEF TwoInit
<1>3. TwoInv /\ ContentInv /\ Other!ContentInv => TwoContents
  BY DEF TwoContents
<1>4. TwoContents => CopyProvenance
  BY DEF TwoContents, ContentInv
<1>5. TwoContents /\ [TwoNext]_twoVars => (ContentInv /\ Other!ContentInv)'
  BY TwoContentsSteps
<1> QED BY <1>2, <1>3, <1>4, <1>5, TwoInvariant, PTL DEF TwoSpec

=============================================================================
