--------------------------- MODULE MCDocumentIndex ---------------------------
(***************************************************************************)
(* Documents and queries for DocumentIndex: two versions of a policy, of   *)
(* which the older one matches better in its second part, and a badly      *)
(* punctuated handbook of another tenant, longer than a chunk.             *)
(***************************************************************************)
EXTENDS DocumentIndex

Says(length, score)  == [length |-> length, score |-> score, ends |-> TRUE]
Rest(length, score)  == [length |-> length, score |-> score, ends |-> FALSE]
Marks(length, score) == Rest(length, score)

\* Segments of 10: <<1,1>> <<2,1>> and <<3,1>>; <<1,1>> <<1,2>> and <<2,1>> <<2,2>>;
\* <<1,1>>, <<2,2>> and <<2,3>>, without the stops before and the rest behind that are lost.
\* An overlap of 6 is <<2,1>> and the blank line before it, a part of <<1,1>> with <<1,2>>, and
\* all of the <<1,1>> and <<2,2>> of the handbook.
Old == [tenant |-> "a", type |-> "policy", source |-> "p",
        text |-> << <<Says(4, 60)>>, <<Says(4, 80)>>, <<Rest(9, 90)>> >>]
New == [tenant |-> "a", type |-> "regulation", source |-> "p",
        text |-> << <<Says(6, 95), Says(3, 70)>>, <<Says(5, 70), Says(3, 70)>> >>]
Handbook == [tenant |-> "b", type |-> "policy", source |-> "p",
             text |-> << <<Says(6, 30)>>,
                         <<Marks(1, 0), Says(6, 85), Says(5, 20), Rest(3, 99)>> >>]
MCDocuments == {Old, New, Handbook}

\* A client that wants everything, and an analysis with a small budget.
Everything == [tenant |-> "a", types |-> {}, topK |-> 3, threshold |-> 72, budget |-> 0, enrich |-> FALSE]
Policies == [tenant |-> "a", types |-> {"policy"}, topK |-> 8, threshold |-> 50, budget |-> 8, enrich |-> TRUE]
MCQueries == {Everything, Policies}

Delete(source, type) == [tenant |-> "a", source |-> source, type |-> type, ids |-> None]
MCDeletions == {Delete("p", None), Delete(None, None)}
=============================================================================
