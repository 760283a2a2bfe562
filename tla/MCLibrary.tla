------------------------------ MODULE MCLibrary ------------------------------
(***************************************************************************)
(* What programs use of the library without a thought for threads, on      *)
(* small instances: the pure algorithms of MCAlgorithms and the container  *)
(* ("sequence").  The client is chosen at the start, and the other stays   *)
(* as it was initialized.                                                  *)
(***************************************************************************)
EXTENDS MCAlgorithms

CONSTANTS Names, short_capacity, Lists, MaxSize, v1, v2

VARIABLES client, use_sso, seqMemory, seqCall

seqVars == <<use_sso, seqMemory, seqCall>>

Seqs == INSTANCE SequenceContainer WITH m <- seqMemory, call <- seqCall, Values <- {v1}

LibraryInit ==
    /\ client \in {"algorithms", "sequence"}
    /\ MCInit /\ Seqs!SeqInit
    /\ client = "algorithms" => use_sso
    /\ client = "sequence" => kind = "keys"

AlgorithmStep == client = "algorithms" /\ MCNext /\ UNCHANGED <<client, seqVars>>
SequenceStep  == client = "sequence" /\ Seqs!SeqNext /\ UNCHANGED <<client, vars>>

LibrarySpec == LibraryInit /\ [][AlgorithmStep \/ SequenceStep]_<<client, vars, seqVars>>

(* Two states are the same state to the search if they look the same here: *)
(* the buffers of sequences are equals.  The last component, always TRUE,  *)
(* has TLC evaluate what it compares, as states that it stores have to be. *)
View ==
    IF client = "algorithms" THEN <<client, vars, seqVars>>
    ELSE <<client, use_sso, Seqs!ElementsLive,
           [s \in Names |-> <<Seqs!Cells(seqMemory, s), Seqs!size(seqMemory, s), Seqs!is_small(seqMemory, s),
                              seqMemory.obj[s].buffer = Seqs!nullptr>>],
           <<vars, seqVars>> = <<vars, seqVars>>>>

-----------------------------------------------------------------------------
(* The properties of the container, see its module; those of the           *)
(* algorithms are in MCAlgorithms.                                         *)

(* Elements live exactly where their sequences say, buffers are owned once *)
(* and sequences compare equal when they are.                              *)
ElementsLive == client = "sequence" => Seqs!ElementsLive /\ Seqs!EqualIsRight

(* A sequence is the list of values that its calls describe, and the       *)
(* iterators that they return are valid.                                   *)
ImplementsVector == Seqs!ImplementsVector

-----------------------------------------------------------------------------
(* Bound: lists up to length two.                                          *)
MCLists == {<< >>, << v1 >>, << v2, v1 >>}
=============================================================================
