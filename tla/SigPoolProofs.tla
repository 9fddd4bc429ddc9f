--------------------------- MODULE SigPoolProofs ---------------------------
(***************************************************************************)
(* Proofs about SigPool for every set of participants and every bound:    *)
(* type correctness, and that ProcessSigPool only attaches genuine        *)
(* signatures and only advances the anchor to a block holding more than  *)
(* TrustCount of them, never backwards.                                   *)
(***************************************************************************)
EXTENDS SigPool, SequenceTheorems, FiniteSetTheorems, TLAPS

-----------------------------------------------------------------------------
(* Type correctness *)

\* Init establishes the type invariant.
LEMMA InitTypeOK == Init => TypeOK
<1>1. << >> \in Seq(Sig)
    BY EmptySeq
<1>2. [i \in Index |-> {}] \in [Index -> SUBSET Peers]
    OBVIOUS
<1>3. -1 \in -1 .. MaxBlocks - 1
    BY BoundsAssumption
<1>4. QED
    BY <1>1, <1>2, <1>3 DEF Init, TypeOK, Nil

\* Every step of the model keeps the variables in their types: the loop
\* position stays inside the pool, so pool[pos] is a signature.
LEMMA NextTypeOK == TypeOK /\ [Next]_vars => TypeOK'
<1> SUFFICES ASSUME TypeOK, [Next]_vars PROVE TypeOK'
    OBVIOUS
<1> USE DEF TypeOK
<1>1. ASSUME NEW s \in Sig, AddSignature(s) PROVE TypeOK'
    <2>1. pool' \in Seq(Sig) /\ Len(pool') = Len(pool) + 1
        BY <1>1, AppendProperties DEF AddSignature
    <2>2. QED
        BY <1>1, <2>1, LenProperties DEF AddSignature
<1>2. CASE CommitBlock
    BY <1>2, BoundsAssumption DEF CommitBlock
<1>3. CASE StartProcessSigPool
    BY <1>3, LenProperties DEF StartProcessSigPool
<1>4. CASE ProcessSignature
    <2> DEFINE bs == pool[pos]
    <2>1. pos \in 1 .. Len(pool) /\ phase = "scan" /\ Len(pool) \in Nat
        BY <1>4, LenProperties DEF ProcessSignature
    <2>2. bs \in Sig
        BY <2>1, ElementOfSeq
    <2>3. UNCHANGED <<pool, lastBlock, received>>
        BY <1>4 DEF ProcessSignature
    <2>4. \/ UNCHANGED <<sigs, anchor>>
          \/ /\ Known(bs)
             /\ sigs' = [sigs EXCEPT ![bs.index] = sigs[bs.index] \cup {bs.validator}]
             /\ anchor' \in {anchor, bs.index}
        BY <1>4 DEF ProcessSignature
    <2>5. sigs' \in [Index -> SUBSET Peers]
        BY <2>2, <2>4 DEF Known, Sig
    <2>6. anchor' \in {Nil} \cup Index
        BY <2>2, <2>4 DEF Sig
    <2>7. \/ /\ UNCHANGED <<phase, newPool, failed>>
             /\ pos' = pos + 1
          \/ /\ phase' = "remove" /\ pos' = 1 /\ newPool' = << >>
             /\ failed' = TRUE
        BY <1>4 DEF ProcessSignature, Leave
    <2>8. processed' \in {processed, processed \cup {pos - 1}}
        BY <1>4 DEF ProcessSignature
    <2>9. << >> \in Seq(Sig)
        BY EmptySeq
    <2>10. phase' # "idle" /\ pos' \in 1 .. Len(pool') + 1
        BY <2>1, <2>3, <2>7
    <2>11. processed' \subseteq Nat
        BY <2>1, <2>8
    <2>12. newPool' \in Seq(Sig) /\ failed' \in BOOLEAN /\ phase' \in {"idle", "scan", "remove"}
        BY <2>1, <2>7, <2>9
    <2>13. QED
        BY <2>3, <2>5, <2>6, <2>10, <2>11, <2>12
<1>5. CASE EndScan
    <2>1. Len(pool) \in Nat
        BY LenProperties
    <2>2. << >> \in Seq(Sig)
        BY EmptySeq
    <2>3. UNCHANGED <<pool, lastBlock, sigs, anchor, processed, received>>
        BY <1>5 DEF EndScan
    <2>4. phase' = "remove" /\ pos' = 1 /\ newPool' = << >> /\ failed' = FALSE
        BY <1>5 DEF EndScan, Leave
    <2>5. pos' \in 1 .. Len(pool') + 1
        BY <2>1, <2>3, <2>4
    <2>6. QED
        BY <2>2, <2>3, <2>4, <2>5
<1>6. CASE RemoveProcessed
    <2>1. pos \in 1 .. Len(pool)
        BY <1>6 DEF RemoveProcessed
    <2>2. pool[pos] \in Sig
        BY <2>1, ElementOfSeq
    <2>3. newPool' \in Seq(Sig)
        BY <1>6, <2>2, AppendProperties DEF RemoveProcessed
    <2>4. QED
        BY <1>6, <2>1, <2>3 DEF RemoveProcessed
<1>7. CASE EndRemove
    BY <1>7 DEF EndRemove
<1>8. CASE UNCHANGED vars
    BY <1>8 DEF vars
<1>9. QED
    BY <1>1, <1>2, <1>3, <1>4, <1>5, <1>6, <1>7, <1>8 DEF Next

\* The variables of SigPool always have their types.
THEOREM TypeCorrect == Spec => []TypeOK
BY InitTypeOK, NextTypeOK, PTL DEF Spec

-----------------------------------------------------------------------------
(* Genuine signatures and a justified anchor *)

\* Adding an element to a finite set does not lower its cardinality.
LEMMA CardinalityGrows ==
    ASSUME NEW S, NEW x, IsFiniteSet(S)
    PROVE  Cardinality(S \cup {x}) >= Cardinality(S)
BY FS_AddElement, FS_CardinalityType

\* The signature set of a block is finite: it holds participants only.
LEMMA SigsFinite ==
    ASSUME TypeOK, NEW i \in Index
    PROVE  IsFiniteSet(sigs[i])
BY PeersAssumption, FS_Subset DEF TypeOK

\* Init establishes the inductive invariant: nothing is pooled or signed.
LEMMA InitIInv == Init => IInv
<1> SUFFICES ASSUME Init PROVE IInv
    OBVIOUS
<1>1. TypeOK
    BY InitTypeOK
<1>2. PoolReceived /\ SignaturesGenuine /\ AnchorJustified
    BY DEF Init, PoolReceived, SignaturesGenuine, AnchorJustified, Nil
<1>3. QED
    BY <1>1, <1>2 DEF IInv

\* The apply branch of ProcessSignature: a valid pooled signature of a
\* participant for a stored block above the anchor.
LEMMA ApplyIInv ==
    ASSUME IInv, ProcessSignature,
           sigs' # sigs \/ anchor' # anchor
    PROVE  IInv'
<1> DEFINE bs == pool[pos]
           newSigs == sigs[bs.index] \cup {bs.validator}
<1>1. TypeOK'
    BY NextTypeOK DEF IInv, Next
<1>2. /\ pos \in 1 .. Len(pool)
      /\ bs \in Sig
      /\ bs \in received
    BY ElementOfSeq DEF IInv, TypeOK, PoolReceived, ProcessSignature
<1>3. /\ Known(bs) /\ BlockStored(bs.index) /\ bs.verdict = "ok"
      /\ sigs' = [sigs EXCEPT ![bs.index] = newSigs]
      /\ anchor' = IF AnchorAdvances(bs.index, Cardinality(newSigs))
                   THEN bs.index ELSE anchor
      /\ UNCHANGED <<pool, lastBlock, received, newPool>>
    BY DEF ProcessSignature, Leave
<1>4. PoolReceived'
    BY <1>3 DEF IInv, PoolReceived
<1>5. SignaturesGenuine'
    BY <1>2, <1>3 DEF IInv, TypeOK, SignaturesGenuine, BlockStored, Sig
<1>6. AnchorJustified'
    <2>1. CASE AnchorAdvances(bs.index, Cardinality(newSigs))
        <3>1. anchor' = bs.index
            BY <1>3, <2>1
        <3>2. sigs'[bs.index] = newSigs
            BY <1>2, <1>3 DEF IInv, TypeOK, Sig
        <3>3. Cardinality(newSigs) > TrustCount
            BY <2>1 DEF AnchorAdvances
        <3>4. bs.index <= lastBlock' 
            BY <1>3 DEF BlockStored
        <3>5. QED
            BY <3>1, <3>2, <3>3, <3>4 DEF AnchorJustified
    <2>2. CASE ~AnchorAdvances(bs.index, Cardinality(newSigs)) /\ anchor # Nil
        <3>1. anchor' = anchor /\ anchor \in Index
            BY <1>3, <2>2 DEF IInv, TypeOK, Nil
        <3>2. Cardinality(sigs'[anchor]) >= Cardinality(sigs[anchor])
            <4>1. IsFiniteSet(sigs[anchor])
                BY <3>1, SigsFinite DEF IInv
            <4>2. CASE anchor = bs.index
                BY <1>2, <1>3, <4>1, <4>2, CardinalityGrows DEF IInv, TypeOK, Sig
            <4>3. CASE anchor # bs.index
                BY <1>3, <3>1, <4>3, FS_CardinalityType, <4>1 DEF IInv, TypeOK
            <4>4. QED
                BY <4>2, <4>3
        <3>3. /\ Cardinality(sigs[anchor]) \in Nat
              /\ Cardinality(sigs'[anchor]) \in Nat
              /\ TrustCount \in Nat
            <4>1. IsFiniteSet(sigs[anchor])
                BY <3>1, SigsFinite DEF IInv
            <4>2. sigs'[anchor] \subseteq Peers
                BY <1>1, <3>1 DEF TypeOK
            <4>3. IsFiniteSet(sigs'[anchor])
                BY <4>2, PeersAssumption, FS_Subset
            <4>4. Cardinality(Peers) \in Nat
                BY PeersAssumption, FS_CardinalityType
            <4>5. QED
                BY <4>1, <4>3, <4>4, FS_CardinalityType DEF TrustCount
        <3>4. Cardinality(sigs[anchor]) > TrustCount /\ anchor <= lastBlock
            BY <2>2 DEF IInv, AnchorJustified
        <3>5. QED
            BY <1>3, <3>1, <3>2, <3>3, <3>4 DEF AnchorJustified
    <2>3. CASE ~AnchorAdvances(bs.index, Cardinality(newSigs)) /\ anchor = Nil
        BY <1>3, <2>3 DEF AnchorJustified
    <2>4. QED
        BY <2>1, <2>2, <2>3
<1>7. QED
    BY <1>1, <1>4, <1>5, <1>6 DEF IInv

\* Every step keeps the inductive invariant.
LEMMA NextIInv == IInv /\ [Next]_vars => IInv'
<1> SUFFICES ASSUME IInv, [Next]_vars PROVE IInv'
    OBVIOUS
<1>0. TypeOK'
    BY NextTypeOK DEF IInv
<1>1. ASSUME NEW s \in Sig, AddSignature(s) PROVE IInv'
    <2>1. /\ pool' = Append(pool, s) /\ received' = received \cup {s}
          /\ UNCHANGED <<lastBlock, sigs, anchor, newPool>>
        BY <1>1 DEF AddSignature
    <2>2. /\ Len(pool') = Len(pool) + 1
          /\ \A k \in 1 .. Len(pool) : pool'[k] = pool[k]
          /\ pool'[Len(pool) + 1] = s
        BY <2>1, AppendProperties DEF IInv, TypeOK
    <2>3. PoolReceived'
        BY <2>1, <2>2 DEF IInv, PoolReceived
    <2>4. QED
        BY <1>0, <2>1, <2>3 DEF IInv, SignaturesGenuine, AnchorJustified
<1>2. CASE CommitBlock
    <2>1. /\ lastBlock' = lastBlock + 1 /\ lastBlock \in Int
          /\ UNCHANGED <<pool, sigs, anchor, newPool, received>>
        BY <1>2 DEF CommitBlock, IInv, TypeOK
    <2>2. SignaturesGenuine'
        BY <2>1 DEF IInv, SignaturesGenuine, Index
    <2>3. AnchorJustified'
        <3>1. anchor \in {Nil} \cup Index
            BY DEF IInv, TypeOK
        <3>2. QED
            BY <2>1, <3>1 DEF IInv, AnchorJustified, Index, Nil
    <2>4. QED
        BY <1>0, <2>1, <2>2, <2>3 DEF IInv, PoolReceived
<1>3. CASE StartProcessSigPool
    BY <1>0, <1>3 DEF StartProcessSigPool, IInv, PoolReceived, SignaturesGenuine,
                     AnchorJustified
<1>4. CASE ProcessSignature
    <2>1. CASE sigs' # sigs \/ anchor' # anchor
        BY <1>4, <2>1, ApplyIInv
    <2>2. CASE sigs' = sigs /\ anchor' = anchor
        <3>1. /\ UNCHANGED <<pool, lastBlock, received>>
              /\ newPool' \in {newPool, << >>}
            BY <1>4 DEF ProcessSignature, Leave
        <3>2. QED
            BY <1>0, <2>2, <3>1 DEF IInv, PoolReceived, SignaturesGenuine,
                                   AnchorJustified
    <2>3. QED
        BY <2>1, <2>2
<1>5. CASE EndScan
    BY <1>0, <1>5 DEF EndScan, Leave, IInv, PoolReceived, SignaturesGenuine,
                     AnchorJustified
<1>6. CASE RemoveProcessed
    <2>1. pos \in 1 .. Len(pool) /\ pool[pos] \in received
        BY <1>6 DEF RemoveProcessed, IInv, TypeOK, PoolReceived
    <2>2. newPool' \in {newPool, Append(newPool, pool[pos])}
          /\ UNCHANGED <<pool, lastBlock, sigs, anchor, received>>
        BY <1>6 DEF RemoveProcessed
    <2>3. ASSUME newPool' = Append(newPool, pool[pos])
          PROVE  \A k \in 1 .. Len(newPool') : newPool'[k] \in received
        <3>1. pool[pos] \in Sig
            BY <2>1, ElementOfSeq DEF IInv, TypeOK
        <3>2. /\ Len(newPool') = Len(newPool) + 1
              /\ \A k \in 1 .. Len(newPool) : newPool'[k] = newPool[k]
              /\ newPool'[Len(newPool) + 1] = pool[pos]
            BY <2>3, <3>1, AppendProperties DEF IInv, TypeOK
        <3>3. QED
            BY <2>1, <3>2 DEF IInv, PoolReceived, TypeOK
    <2>4. QED
        BY <1>0, <2>2, <2>3 DEF IInv, PoolReceived, SignaturesGenuine,
                               AnchorJustified
<1>7. CASE EndRemove
    BY <1>0, <1>7 DEF EndRemove, IInv, PoolReceived, SignaturesGenuine,
                     AnchorJustified
<1>8. CASE UNCHANGED vars
    BY <1>8 DEF vars, IInv, TypeOK, PoolReceived, SignaturesGenuine,
                AnchorJustified
<1>9. QED
    BY <1>1, <1>2, <1>3, <1>4, <1>5, <1>6, <1>7, <1>8 DEF Next

\* ProcessSigPool attaches to a block only valid signatures of
\* participants that arrived for that block, and only to stored blocks.
THEOREM GenuineSignatures == Spec => []SignaturesGenuine
<1>1. IInv => SignaturesGenuine
    BY DEF IInv
<1>2. QED
    BY InitIInv, NextIInv, <1>1, PTL DEF Spec

\* The anchor block is always a stored block with more than TrustCount
\* signatures, for any number of participants.
THEOREM AnchorSafe == Spec => []AnchorJustified
<1>1. IInv => AnchorJustified
    BY DEF IInv
<1>2. QED
    BY InitIInv, NextIInv, <1>1, PTL DEF Spec

=============================================================================
