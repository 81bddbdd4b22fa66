--------------------------- MODULE OciLayoutProofs ----------------------------
(***************************************************************************)
(* Proofs about OciLayout, for any requests, contents and names: the       *)
(* inductive invariant, the invariants it implies, and that the layout     *)
(* implements the store of LayoutStore.                                    *)
(***************************************************************************)
EXTENDS OciLayout, TLAPS

-----------------------------------------------------------------------------
(* The inductive invariant *)

\* The daemon starts on a path without a layout.
LEMMA InitInv == Init => IInv
<1> SUFFICES ASSUME Init PROVE IInv
  OBVIOUS
<1> USE ContentAssumption, NameAssumption DEF Init
<1>1. TypeOK
  BY DEF TypeOK, Target, NoTarget
<1>2. LayoutImpliesDirs /\ OpenIsUsable /\ OneInitializer
  BY DEF LayoutImpliesDirs, OpenIsUsable, OneInitializer, Using
<1>3. StageHasDirs /\ StageMakesDirs
  BY DEF StageHasDirs, StageMakesDirs, Using
<1>4. WriteHasTarget /\ PublishedIsWhole
  BY DEF WriteHasTarget, PublishedIsWhole
<1> QED
  BY <1>1, <1>2, <1>3, <1>4 DEF IInv

\* Opening: the steps that make the directories and the oci-layout file.
LEMMA OpenInv ==
  ASSUME IInv, NEW p \in Procs,
         Open(p) \/ Mkdir(p) \/ MkdirExists(p) \/ CreateLayout(p) \/ MakeTemp(p)
  PROVE  IInv'
<1> USE ContentAssumption, NameAssumption
    DEF IInv, TypeOK, Opening, Using, Dir, Goto, disk
<1>1. CASE Open(p)
  BY <1>1 DEF Open, LayoutImpliesDirs, OpenIsUsable, OneInitializer,
     StageHasDirs, StageMakesDirs, WriteHasTarget, PublishedIsWhole
<1>2. CASE Mkdir(p)
  BY <1>2 DEF Mkdir, MayMake, AfterDir, LayoutImpliesDirs, OpenIsUsable,
     OneInitializer, StageHasDirs, StageMakesDirs, WriteHasTarget,
     PublishedIsWhole
<1>3. CASE MkdirExists(p)
  BY <1>3 DEF MkdirExists, LayoutImpliesDirs, OpenIsUsable, OneInitializer,
     StageHasDirs, StageMakesDirs, WriteHasTarget, PublishedIsWhole
<1>4. CASE CreateLayout(p)
  BY <1>4 DEF CreateLayout, LayoutImpliesDirs, OpenIsUsable, OneInitializer,
     StageHasDirs, StageMakesDirs, WriteHasTarget, PublishedIsWhole
<1>5. CASE MakeTemp(p)
  BY <1>5 DEF MakeTemp, LayoutImpliesDirs, OpenIsUsable, OneInitializer,
     StageHasDirs, StageMakesDirs, WriteHasTarget, PublishedIsWhole
<1> QED
  BY <1>1, <1>2, <1>3, <1>4, <1>5

\* Writing to the temporary file and moving it to its place.
LEMMA WriteInv ==
  ASSUME IInv, NEW p \in Procs,
         \/ \E d \in Blobs : PutBlob(p, d)
         \/ \E n \in Names, d \in Blobs : PutReference(p, n, d)
         \/ EndWrite(p) \/ Rename(p)
  PROVE  IInv'
<1> USE ContentAssumption, NameAssumption
    DEF IInv, TypeOK, Opening, Using, Dir, Goto, disk
<1>1. ASSUME NEW t \in Target, t[2] \in Blobs, BeginWrite(p, t) PROVE IInv'
  BY <1>1 DEF BeginWrite, LayoutImpliesDirs, OpenIsUsable, OneInitializer,
     StageHasDirs, StageMakesDirs, WriteHasTarget, PublishedIsWhole
<1>2. ASSUME NEW d \in Blobs, PutBlob(p, d) PROVE IInv'
  BY <1>1, <1>2 DEF PutBlob, Target
<1>3. ASSUME NEW n \in Names, NEW d \in Blobs, PutReference(p, n, d) PROVE IInv'
  BY <1>1, <1>3 DEF PutReference, Target
<1>4. CASE EndWrite(p)
  BY <1>4 DEF EndWrite, LayoutImpliesDirs, OpenIsUsable, OneInitializer,
     StageHasDirs, StageMakesDirs, WriteHasTarget, PublishedIsWhole
<1>5. CASE Rename(p)
  <2>1. target[p] \in Target /\ target[p][2] \in Blobs /\ temp[p] = target[p][2]
    BY <1>5 DEF Rename, WriteHasTarget
  <2>2. target[p][1] # None => target[p][1] \in Names
    BY <2>1 DEF Target
  <2>3. TypeOK'
    BY <1>5, <2>1, <2>2 DEF Rename, NoTarget, Target
  <2>4. PublishedIsWhole'
    BY <1>5, <2>1, <2>2 DEF Rename, PublishedIsWhole
  <2>5. (LayoutImpliesDirs /\ OpenIsUsable /\ OneInitializer)'
    BY <1>5 DEF Rename, LayoutImpliesDirs, OpenIsUsable, OneInitializer,
       StageHasDirs
  <2>6. (StageHasDirs /\ StageMakesDirs /\ WriteHasTarget)'
    BY <1>5 DEF Rename, StageHasDirs, StageMakesDirs, WriteHasTarget
  <2> QED
    BY <2>3, <2>4, <2>5, <2>6
<1> QED
  BY <1>2, <1>3, <1>4, <1>5

\* The other operations of an open layout, and failures.
LEMMA RestInv ==
  ASSUME IInv, NEW p \in Procs,
         \/ \E d \in Blobs : DeleteBlob(p, d)
         \/ \E n \in Names : DeleteReference(p, n)
         \/ Close(p) \/ Fail(p)
  PROVE  IInv'
<1> USE ContentAssumption, NameAssumption
    DEF IInv, TypeOK, Opening, Using, Dir, Goto, disk, NoTarget, Target
<1>1. ASSUME NEW d \in Blobs, DeleteBlob(p, d) PROVE IInv'
  BY <1>1 DEF DeleteBlob, LayoutImpliesDirs, OpenIsUsable, OneInitializer,
     StageHasDirs, StageMakesDirs, WriteHasTarget, PublishedIsWhole
<1>2. ASSUME NEW n \in Names, DeleteReference(p, n) PROVE IInv'
  BY <1>2 DEF DeleteReference, LayoutImpliesDirs, OpenIsUsable, OneInitializer,
     StageHasDirs, StageMakesDirs, WriteHasTarget, PublishedIsWhole
<1>3. CASE Close(p)
  BY <1>3 DEF Close, LayoutImpliesDirs, OpenIsUsable, OneInitializer,
     StageHasDirs, StageMakesDirs, WriteHasTarget, PublishedIsWhole
<1>4. CASE Fail(p)
  BY <1>4 DEF Fail, LayoutImpliesDirs, OpenIsUsable, OneInitializer,
     StageHasDirs, StageMakesDirs, WriteHasTarget, PublishedIsWhole
<1> QED
  BY <1>1, <1>2, <1>3, <1>4

\* A crash leaves the disk and closes every request.
LEMMA CrashInv == ASSUME IInv, Crash PROVE IInv'
BY DEF IInv, TypeOK, Opening, Using, Dir, disk, NoTarget, Target, Crash,
   LayoutImpliesDirs, OpenIsUsable, OneInitializer, StageHasDirs,
   StageMakesDirs, WriteHasTarget, PublishedIsWhole

\* Every step preserves the invariant.
LEMMA StepInv == ASSUME IInv, [Next]_vars PROVE IInv'
<1>1. CASE UNCHANGED vars
  BY <1>1 DEF vars, IInv, TypeOK, LayoutImpliesDirs, OpenIsUsable,
     OneInitializer, StageHasDirs, StageMakesDirs, WriteHasTarget,
     PublishedIsWhole, Using
<1>2. ASSUME NEW p \in Procs, Step(p) PROVE IInv'
  BY <1>2, OpenInv, WriteInv, RestInv DEF Step
<1> QED
  BY <1>1, <1>2, CrashInv DEF Next
-----------------------------------------------------------------------------
(* The safety properties *)

\* The strengthened invariant holds of every behaviour.
THEOREM InductiveInvariant == Spec => []IInv
BY InitInv, StepInv, PTL DEF Spec

\* The variables of the layout and its requests have their types.
THEOREM TypeCorrect == Spec => []TypeOK
<1>1. IInv => TypeOK
  BY DEF IInv
<1> QED
  BY <1>1, InductiveInvariant, PTL

\* The oci-layout file never appears before the directories it vouches for.
THEOREM LayoutVouches == Spec => []LayoutImpliesDirs
<1>1. IInv => LayoutImpliesDirs
  BY DEF IInv
<1> QED
  BY <1>1, InductiveInvariant, PTL

\* A request with an open layout finds its directories, whatever others do.
THEOREM OpenStaysUsable == Spec => []OpenIsUsable
<1>1. IInv => OpenIsUsable
  BY DEF IInv
<1> QED
  BY <1>1, InductiveInvariant, PTL

\* At most one request ever builds the layout.
THEOREM InitializerIsUnique == Spec => []OneInitializer
<1>1. IInv => OneInitializer
  BY DEF IInv
<1> QED
  BY <1>1, InductiveInvariant, PTL

\* A first open that dies half-way makes the repository unusable for good.
THEOREM HalfMadeIsForever == Spec => HalfMadeIsFinal
<1>1. ASSUME IInv, [Next]_vars, HalfMade PROVE HalfMade'
  <2> USE DEF HalfMade, IInv, TypeOK, StageMakesDirs, Goto, disk, Dir, Opening
  <2>1. "blobs" \in dirs
    BY <1>1
  <2>2. CASE UNCHANGED vars
    BY <1>1, <2>2 DEF vars
  <2>3. CASE Crash
    BY <1>1, <2>3 DEF Crash
  <2>4. ASSUME NEW p \in Procs, Step(p) PROVE HalfMade'
    <3>1. ~Mkdir(p) /\ ~CreateLayout(p)
      BY <1>1, <2>1 DEF Mkdir, MayMake, CreateLayout
    <3>2. CASE Open(p) \/ MkdirExists(p) \/ MakeTemp(p)
      BY <1>1, <3>2 DEF Open, MkdirExists, MakeTemp
    <3>3. CASE \E d \in Blobs : PutBlob(p, d) \/ DeleteBlob(p, d)
      BY <1>1, <3>3 DEF PutBlob, BeginWrite, DeleteBlob
    <3>4. CASE \/ \E n \in Names, d \in Blobs : PutReference(p, n, d)
               \/ \E n \in Names : DeleteReference(p, n)
      BY <1>1, <3>4 DEF PutReference, BeginWrite, DeleteReference
    <3>5. CASE EndWrite(p) \/ Rename(p) \/ Close(p) \/ Fail(p)
      BY <1>1, <3>5 DEF EndWrite, Rename, Close, Fail
    <3> QED
      BY <2>4, <3>1, <3>2, <3>3, <3>4, <3>5 DEF Step
  <2> QED
    BY <1>1, <2>2, <2>3, <2>4 DEF Next
<1> QED
  BY <1>1, InductiveInvariant, PTL DEF Spec, HalfMadeIsFinal
-----------------------------------------------------------------------------
(* Refinement *)

\* Every call but Rename and the two deletes is a stutter of the store; these
\* map to the store's operations, a Rename of a reference to an overwrite.
LEMMA StepSimulates ==
  ASSUME IInv, NEW p \in Procs, Step(p)
  PROVE  \/ UNCHANGED <<blobs, refs>>
         \/ \E d \in Blobs : Store!PutBlob(d) \/ Store!DeleteBlob(d)
         \/ \E n \in Names : Store!DeleteReference(n)
         \/ /\ pc[p] = "written"
            /\ target[p][1] \in Names
            /\ target[p][2] \in Blobs
            /\ Store!OverwriteReference(target[p][1], target[p][2])
<1>1. CASE \/ Open(p) \/ Mkdir(p) \/ MkdirExists(p) \/ CreateLayout(p)
           \/ MakeTemp(p) \/ EndWrite(p) \/ Close(p) \/ Fail(p)
  BY <1>1 DEF Open, Mkdir, MkdirExists, CreateLayout, MakeTemp, EndWrite,
     Close, Fail, disk
<1>2. CASE \/ \E d \in Blobs : PutBlob(p, d)
           \/ \E n \in Names, d \in Blobs : PutReference(p, n, d)
  BY <1>2 DEF PutBlob, PutReference, BeginWrite, disk
<1>3. CASE \E d \in Blobs : DeleteBlob(p, d)
  BY <1>3 DEF DeleteBlob, Store!DeleteBlob
<1>4. CASE \E n \in Names : DeleteReference(p, n)
  BY <1>4 DEF DeleteReference, Store!DeleteReference
<1>5. CASE Rename(p)
  <2>1. target[p] \in Target /\ target[p][2] \in Blobs /\ temp[p] = target[p][2]
    BY <1>5 DEF Rename, IInv, TypeOK, WriteHasTarget
  <2>2. CASE target[p][1] = None
    BY <1>5, <2>1, <2>2 DEF Rename, Store!PutBlob
  <2>3. CASE target[p][1] # None
    BY <1>5, <2>1, <2>3 DEF Rename, Store!OverwriteReference, Target
  <2> QED
    BY <2>2, <2>3
<1> QED
  BY <1>1, <1>2, <1>3, <1>4, <1>5 DEF Step

\* The layout implements the store without the promise of ErrClobber.
THEOREM WeakRefinement == Spec => ImplementsWeakStore
<1>1. Init => Store!Init
  BY DEF Init, Store!Init
<1>2. ASSUME IInv, [Next]_vars PROVE [Store!WeakNext]_(Store!vars)
  <2>1. CASE UNCHANGED vars \/ Crash
    BY <2>1 DEF vars, Crash, disk, Store!vars
  <2>2. ASSUME NEW p \in Procs, Step(p) PROVE [Store!WeakNext]_(Store!vars)
    BY <1>2, <2>2, StepSimulates DEF Store!vars, Store!WeakNext, Store!Next
  <2> QED
    BY <1>2, <2>1, <2>2 DEF Next
<1> QED
  BY <1>1, <1>2, InductiveInvariant, PTL
  DEF Spec, ImplementsWeakStore, Store!WeakSpec

\* The name a lone request puts a reference to stays free until its rename.
NameIsFree ==
    \A p \in Procs :
        pc[p] \in {"writing", "written"} /\ target[p][1] # None
            => refs[target[p][1]] = None

\* No step of the only request takes the name.
LEMMA NameStaysFree ==
  ASSUME \A p, q \in Procs : p = q, IInv, NameIsFree, [Next]_vars
  PROVE  NameIsFree'
<1> USE NameAssumption DEF NameIsFree, IInv, TypeOK, Goto, disk, Dir
<1>1. CASE UNCHANGED vars \/ Crash
  BY <1>1 DEF vars, Crash
<1>2. ASSUME NEW p \in Procs, Step(p) PROVE NameIsFree'
  <2>1. \A q \in Procs : q = p
    OBVIOUS
  <2>2. CASE Open(p) \/ Mkdir(p) \/ MkdirExists(p) \/ CreateLayout(p) \/ MakeTemp(p)
    BY <2>1, <2>2 DEF Open, Mkdir, AfterDir, MkdirExists, CreateLayout, MakeTemp
  <2>3. CASE \E d \in Blobs : PutBlob(p, d) \/ DeleteBlob(p, d)
    BY <2>1, <2>3 DEF PutBlob, BeginWrite, DeleteBlob
  <2>4. CASE \/ \E n \in Names, d \in Blobs : PutReference(p, n, d)
             \/ \E n \in Names : DeleteReference(p, n)
    BY <2>1, <2>4 DEF PutReference, ReferenceIsFree, BeginWrite, DeleteReference
  <2>5. CASE EndWrite(p) \/ Rename(p) \/ Close(p) \/ Fail(p)
    BY <2>1, <2>5 DEF EndWrite, Rename, Close, Fail, Opening
  <2> QED
    BY <1>2, <2>2, <2>3, <2>4, <2>5 DEF Step
<1> QED
  BY <1>1, <1>2 DEF Next

\* For one request at a time the layout implements the documented store,
\* ErrClobber included.
THEOREM LoneRefinement ==
  ASSUME \A p, q \in Procs : p = q
  PROVE  Spec => ImplementsStore
<1>1. Init => Store!Init /\ NameIsFree
  BY DEF Init, Store!Init, NameIsFree
<1>2. IInv /\ NameIsFree /\ [Next]_vars => NameIsFree'
  BY NameStaysFree
<1>3. ASSUME IInv, NameIsFree, [Next]_vars PROVE [Store!Next]_(Store!vars)
  <2>1. CASE UNCHANGED vars \/ Crash
    BY <2>1 DEF vars, Crash, disk, Store!vars
  <2>2. ASSUME NEW p \in Procs, Step(p) PROVE [Store!Next]_(Store!vars)
    <3>1. CASE \/ UNCHANGED <<blobs, refs>>
               \/ \E d \in Blobs : Store!PutBlob(d) \/ Store!DeleteBlob(d)
               \/ \E n \in Names : Store!DeleteReference(n)
      BY <3>1 DEF Store!vars, Store!Next
    <3>2. CASE /\ pc[p] = "written"
               /\ target[p][1] \in Names
               /\ target[p][2] \in Blobs
               /\ Store!OverwriteReference(target[p][1], target[p][2])
      <4>1. refs[target[p][1]] = None
        BY <1>3, <3>2, NameAssumption DEF NameIsFree
      <4>2. Store!PutReference(target[p][1], target[p][2])
        BY <3>2, <4>1 DEF Store!PutReference, Store!OverwriteReference
      <4> QED
        BY <3>2, <4>2 DEF Store!Next
    <3> QED
      BY <1>3, <2>2, <3>1, <3>2, StepSimulates
  <2> QED
    BY <1>3, <2>1, <2>2 DEF Next
<1> QED
  BY <1>1, <1>2, <1>3, InductiveInvariant, PTL
  DEF Spec, ImplementsStore, Store!Spec
=============================================================================
