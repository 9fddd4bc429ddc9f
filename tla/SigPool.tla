------------------------------ MODULE SigPool ------------------------------
(***************************************************************************)
(* The block-signature pool of a replica and the anchor block it sets:    *)
(* the tail of Poset.InsertEvent that appends an event's block signatures *)
(* to Poset.SigPool, the block commit of Poset.ProcessDecidedRounds,      *)
(* Poset.ProcessSigPool with its deferred removeProcessedSignatures, and  *)
(* the store's GetBlock/SetBlock (all in src/unnamed/part_010).           *)
(*                                                                         *)
(* ProcessSigPool is one call, run while no event is inserted (the pool   *)
(* has a single writer).  Its loop and the deferred filter are modelled   *)
(* one iteration per step, with the other actions disabled until the call *)
(* returns, so each step is the body of one loop iteration.               *)
(***************************************************************************)
EXTENDS Integers, Sequences, FiniteSets

CONSTANTS
    Peers,      \* participants: validators whose public key is known
    Strangers,  \* validators that are not participants
    MaxBlocks,  \* bound on the number of blocks committed
    MaxPool,    \* bound on the length of the signature pool
    MaxSigs     \* bound on the number of distinct signatures that arrive

ASSUME PeersAssumption == IsFiniteSet(Peers) /\ Peers # {}
ASSUME StrangersAssumption == Peers \cap Strangers = {}
ASSUME BoundsAssumption == MaxBlocks \in Nat /\ MaxPool \in Nat /\ MaxSigs \in Nat

\* peers.GetTrustCount (outside src/): a third of the participants.
TrustCount == Cardinality(Peers) \div 3

\* p.AnchorBlock == nil.
Nil == -1

\* Block indices a signature can name (blocks 0 .. MaxBlocks - 1).
Index == 0 .. MaxBlocks - 1

\* What block.Verify(bs) does with a signature: valid, invalid (false,
\* nil) or an error (e.g. an undecodable signature).
Verdict == {"ok", "bad", "error"}

\* A BlockSignature: its block index, its validator and its verdict.
Sig == [index : Index, validator : Peers \cup Strangers, verdict : Verdict]

VARIABLES
    pool,       \* Poset.SigPool
    lastBlock,  \* InmemStore.lastBlock: blocks 0 .. lastBlock are stored
    sigs,       \* sigs[i]: validators in block i's Signatures map
    anchor,     \* Poset.AnchorBlock (Nil while nil)
    phase,      \* "idle", "scan" (the range loop), "remove" (the defer)
    pos,        \* the loop's position in pool (Go index pos - 1)
    processed,  \* processedSignatures, its keys as Go indices
    newPool,    \* removeProcessedSignatures' newSigPool
    failed,     \* the last call of ProcessSigPool returned an error
    received    \* history: every signature ever appended to the pool

vars == <<pool, lastBlock, sigs, anchor, phase, pos, processed, newPool,
          failed, received>>

Init ==
    /\ pool = << >>
    /\ lastBlock = -1
    /\ sigs = [i \in Index |-> {}]
    /\ anchor = Nil
    /\ phase = "idle"
    /\ pos = 0
    /\ processed = {}
    /\ newPool = << >>
    /\ failed = FALSE
    /\ received = {}

\* InsertEvent, last step: p.SigPool = append(p.SigPool, blockSignatures...)
\* for an event carrying the signature s.
AddSignature(s) ==
    /\ phase = "idle"
    /\ Len(pool) < MaxPool
    /\ s \in received \/ Cardinality(received) < MaxSigs
    /\ pool' = Append(pool, s)
    /\ received' = received \cup {s}
    /\ UNCHANGED <<lastBlock, sigs, anchor, phase, pos, processed, newPool,
                   failed>>

\* ProcessDecidedRounds: a frame with transactions becomes block
\* LastBlockIndex() + 1, stored by SetBlock with no signature yet.
CommitBlock ==
    /\ phase = "idle"
    /\ lastBlock + 1 < MaxBlocks
    /\ lastBlock' = lastBlock + 1
    /\ UNCHANGED <<pool, sigs, anchor, phase, pos, processed, newPool,
                   failed, received>>

\* ProcessSigPool is called: processedSignatures := map{}, range starts.
StartProcessSigPool ==
    /\ phase = "idle"
    /\ phase' = "scan"
    /\ pos' = 1
    /\ processed' = {}
    /\ UNCHANGED <<pool, lastBlock, sigs, anchor, newPool, failed, received>>

\* Leaving the loop, by its end or by "return err": the deferred
\* removeProcessedSignatures starts with an empty newSigPool.
Leave(err) ==
    /\ phase' = "remove"
    /\ failed' = err
    /\ pos' = 1
    /\ newPool' = << >>

\* Mutant: the participant check is missing.
KnownAnyValidator(bs) == TRUE

\* Participants.ReadByPubKey(validatorHex) finds the validator.
Known(bs) == bs.validator \in Peers

\* p.AnchorBlock == nil || idx > *p.AnchorBlock
AboveAnchor(idx) == anchor = Nil \/ idx > anchor

\* Mutant: an off-by-one lookup that finds the block not yet committed.
BlockStoredNext(idx) == idx <= lastBlock + 1

\* Store.GetBlock(idx) finds the block.
BlockStored(idx) == idx <= lastBlock

\* Mutant: the threshold compared with >= instead of >.
AnchorAdvancesAtTrustCount(idx, n) == n >= TrustCount /\ AboveAnchor(idx)

\* len(block.Signatures) > GetTrustCount() && (AnchorBlock == nil || ...)
AnchorAdvances(idx, n) == n > TrustCount /\ AboveAnchor(idx)

\* One iteration of the range loop on bs = pool[pos].
ProcessSignature ==
    LET bs == pool[pos]
        \* the block with bs added to its Signatures map
        newSigs == sigs[bs.index] \cup {bs.validator}
    IN
    /\ phase = "scan"
    /\ pos <= Len(pool)
    /\ \/ \* unknown validator: continue
          /\ ~Known(bs)
          /\ pos' = pos + 1
          /\ UNCHANGED <<sigs, anchor, processed, phase, newPool, failed>>
       \/ \* at or below the anchor: only marked processed
          /\ Known(bs)
          /\ ~AboveAnchor(bs.index)
          /\ pos' = pos + 1
          /\ processed' = processed \cup {pos - 1}
          /\ UNCHANGED <<sigs, anchor, phase, newPool, failed>>
       \/ \* GetBlock fails, or Verify says invalid: continue
          /\ Known(bs)
          /\ AboveAnchor(bs.index)
          /\ ~BlockStored(bs.index) \/ bs.verdict = "bad"
          /\ pos' = pos + 1
          /\ UNCHANGED <<sigs, anchor, processed, phase, newPool, failed>>
       \/ \* Verify returns an error: return err (the defer still runs)
          /\ Known(bs)
          /\ AboveAnchor(bs.index)
          /\ BlockStored(bs.index)
          /\ bs.verdict = "error"
          /\ UNCHANGED <<sigs, anchor, processed>>
          /\ Leave(TRUE)
       \/ \* SetSignature, SetBlock, maybe setAnchorBlock
          /\ Known(bs)
          /\ AboveAnchor(bs.index)
          /\ BlockStored(bs.index)
          /\ bs.verdict = "ok"
          /\ sigs' = [sigs EXCEPT ![bs.index] = newSigs]
          /\ anchor' = IF AnchorAdvances(bs.index, Cardinality(newSigs))
                       THEN bs.index ELSE anchor
          /\ pos' = pos + 1
          /\ processed' = processed \cup {pos - 1}
          /\ UNCHANGED <<phase, newPool, failed>>
    /\ UNCHANGED <<pool, lastBlock, received>>

\* The range loop ends.
EndScan ==
    /\ phase = "scan"
    /\ pos = Len(pool) + 1
    /\ Leave(FALSE)
    /\ UNCHANGED <<pool, lastBlock, sigs, anchor, processed, received>>

\* One iteration of removeProcessedSignatures: bs is kept unless its BLOCK
\* index is a key of processedSignatures, whose keys are pool positions.
RemoveProcessed ==
    /\ phase = "remove"
    /\ pos <= Len(pool)
    /\ newPool' = IF pool[pos].index \notin processed
                  THEN Append(newPool, pool[pos]) ELSE newPool
    /\ pos' = pos + 1
    /\ UNCHANGED <<pool, lastBlock, sigs, anchor, phase, processed, failed,
                   received>>

\* p.SigPool = newSigPool; ProcessSigPool returns.
EndRemove ==
    /\ phase = "remove"
    /\ pos = Len(pool) + 1
    /\ pool' = newPool
    /\ phase' = "idle"
    /\ pos' = 0
    /\ UNCHANGED <<lastBlock, sigs, anchor, processed, newPool, failed,
                   received>>

Next ==
    \/ \E s \in Sig : AddSignature(s)
    \/ CommitBlock
    \/ StartProcessSigPool
    \/ ProcessSignature
    \/ EndScan
    \/ RemoveProcessed
    \/ EndRemove

Spec == Init /\ [][Next]_vars

-----------------------------------------------------------------------------
(* Properties *)

\* The variables have their types.
TypeOK ==
    /\ pool \in Seq(Sig)
    /\ lastBlock \in -1 .. MaxBlocks - 1
    /\ sigs \in [Index -> SUBSET Peers]
    /\ anchor \in {Nil} \cup Index
    /\ phase \in {"idle", "scan", "remove"}
    /\ pos \in IF phase = "idle" THEN {0} ELSE 1 .. Len(pool) + 1
    /\ processed \subseteq Nat
    /\ newPool \in Seq(Sig)
    /\ failed \in BOOLEAN
    /\ received \subseteq Sig

\* A signature is in the pool.
InPool(s) == \E k \in 1 .. Len(pool) : pool[k] = s

\* Every signature ProcessSigPool attaches to a block is a valid signature
\* of a participant that some event carried for that very block, and only
\* stored blocks carry signatures (SetSignature after GetBlock, Verify and
\* the participant check).
SignaturesGenuine ==
    \A i \in Index :
        /\ sigs[i] # {} => i <= lastBlock
        /\ \A v \in sigs[i] :
              [index |-> i, validator |-> v, verdict |-> "ok"] \in received

\* The anchor block, once set, is a stored block holding more than
\* TrustCount participant signatures: the block GetAnchorBlockWithFrame
\* hands to Reset would pass CheckBlock.
AnchorJustified ==
    anchor # Nil => /\ anchor <= lastBlock
                    /\ Cardinality(sigs[anchor]) > TrustCount

\* Every signature in the pool, or copied to newSigPool, came with an event.
PoolReceived ==
    /\ \A k \in 1 .. Len(pool) : pool[k] \in received
    /\ \A k \in 1 .. Len(newPool) : newPool[k] \in received

\* The inductive invariant behind SignaturesGenuine and AnchorJustified.
IInv == TypeOK /\ PoolReceived /\ SignaturesGenuine /\ AnchorJustified

\* A call of ProcessSigPool that returns nil leaves no signature of a
\* non-participant in the pool (spec 4.8: such signatures are discarded).
StrangerSignaturesDiscarded ==
    [][phase = "remove" /\ phase' = "idle" /\ ~failed =>
         \A k \in 1 .. Len(pool') : pool'[k].validator \in Peers]_vars

\* Between calls, a valid participant signature that some event carried is
\* still pooled, attached to its block, or at or below the anchor (the only
\* signatures ProcessSigPool means to drop unapplied).
NoValidSignatureLost ==
    phase = "idle" =>
        \A s \in received :
            s.validator \in Peers /\ s.verdict = "ok" =>
                \/ InPool(s)
                \/ s.validator \in sigs[s.index]
                \/ anchor # Nil /\ s.index <= anchor

\* ProcessSigPool is called again and again (the node runs it after every
\* pass of the processing pipeline), and each call runs to its return.
FairSpec ==
    /\ Spec
    /\ WF_vars(StartProcessSigPool)
    /\ WF_vars(ProcessSignature)
    /\ WF_vars(EndScan)
    /\ WF_vars(RemoveProcessed)
    /\ WF_vars(EndRemove)

\* A valid participant signature pooled for a stored block above the anchor
\* is eventually attached to that block or overtaken by the anchor.
ValidSignatureEventuallyApplied ==
    \A s \in Sig :
        (/\ InPool(s) /\ s.validator \in Peers /\ s.verdict = "ok"
         /\ s.index <= lastBlock)
        ~> (s.validator \in sigs[s.index] \/ (anchor # Nil /\ s.index <= anchor))

=============================================================================
