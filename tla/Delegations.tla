---------------------------- MODULE Delegations ----------------------------
(***************************************************************************)
(* A delegation of @ucanto/core as a view over blocks (delegation.js,      *)
(* dag.js, car.js): which blocks it holds, which of them it exports, and   *)
(* what is seen of them again by who imports it.                           *)
(*                                                                         *)
(* Blocks are content-addressed, so a link is written as the block it      *)
(* addresses, and to link to a block is not to hold it.                    *)
(***************************************************************************)
EXTENDS Subsequences, SequencesExt, FiniteSetsExt

\* A UCAN links to its proofs in order, and to data at places in its
\* capabilities and facts: "nb", "fact" or "inside a fact".
Ucan(id, prf, links) == <<"ucan", id, prf, links>>
Data(id)             == <<"data", id>>
Variant(root)        == <<"ucan@", root>>

Kind(block) == block[1]
Prf(block)  == block[3]

Ok(x)  == <<"ok", x>>
Threw  == <<"threw">>
IsOk(r) == r[1] = "ok"

\* Links anywhere in a capability, but in facts only at the top.
AttachedLinks(ucan) == {l[2] : l \in {l \in ucan[4] : l[1] # "inside a fact"}}

-----------------------------------------------------------------------------
(* Views.  A proof is a view itself, or only a link.  What was built keeps *)
(* the proofs it was given; of any other they are found when asked for.    *)

Linked(block)      == [root |-> block, blocks |-> {}, built |-> FALSE, proofs |-> <<>>, linked |-> TRUE]
View(root, blocks) == [root |-> root, blocks |-> blocks, built |-> FALSE, proofs |-> <<>>, linked |-> FALSE]

ViewStoreless(root, blocks) ==               \* mutation: the view is not given the store
    IF root \in blocks THEN View(root, {root}) ELSE Linked(root)

\* DAG.get with the link itself as the fallback.
ViewOrLink(root, blocks) == IF root \in blocks THEN View(root, blocks) ELSE Linked(root)

\* Proofs whose block is in the store become views of the same store.
Proofs(v) ==
    IF v.built THEN v.proofs
    ELSE [i \in DOMAIN Prf(v.root) |-> ViewOrLink(Prf(v.root)[i], v.blocks)]

-----------------------------------------------------------------------------
(* Exporting.  Of the order of the blocks, only that the root is the last  *)
(* of them is ever looked at.                                              *)

HeldProofs(root, blocks) == ToSet(Prf(root)) \cap blocks

ExportDirect(root, blocks) == {root}        \* mutation: proofs of proofs stay

ExportSubDAG(root, blocks) ==
    LET exported[b \in blocks \cup {root}] ==
            {b} \cup UNION {exported[proof] : proof \in HeldProofs(b, blocks)}
    IN  exported[root]

ProofBlocks(v) == UNION {ExportSubDAG(proof, v.blocks) : proof \in HeldProofs(v.root, v.blocks)}

ExportBare(v) ==                             \* mutation: attachments stay
    [before |-> ProofBlocks(v), last |-> v.root]

\* Of the attached blocks only those of the root itself are exported.
Export(v) ==
    [before |-> ProofBlocks(v) \cup (AttachedLinks(v.root) \cap v.blocks), last |-> v.root]

BlocksOf(dag) == dag.before \cup {dag.last}

\* DAG.iterate: a link has no blocks.
ExportIfView(v) == IF v.linked THEN {} ELSE BlocksOf(Export(v))

ExportAll(views) == UNION {ExportIfView(views[i]) : i \in DOMAIN views}

\* The root is not among the blocks of what was imported.
ImportDAG(dag) == View(dag.last, dag.before)

-----------------------------------------------------------------------------
(* delegate and attach throw on a block that is not linked to.             *)

Delegate(id, proofs, links, attached) ==
    LET root == Ucan(id, [i \in DOMAIN proofs |-> proofs[i].root], links)
    IN  IF attached \subseteq AttachedLinks(root)
        THEN Ok([root |-> root, blocks |-> ExportAll(proofs) \cup attached,
                 built |-> TRUE, proofs |-> proofs, linked |-> FALSE])
        ELSE Threw

CanAttach(v, block) == block \in AttachedLinks(v.root)
Attach(v, block)    == [v EXCEPT !.blocks = @ \cup {block}]

-----------------------------------------------------------------------------
(* CAR files: each block once, a root also when it was not among them.     *)

EncodeCAR(roots, blocks) == [roots |-> roots, blocks |-> blocks \cup ToSet(roots)]

\* Roots whose block is missing are passed over.
DecodeCAR(car) == [roots |-> Keep(car.roots, car.blocks), blocks |-> car.blocks]

Archive(v) == EncodeCAR(<<Variant(v.root)>>, BlocksOf(Export(v)))

Extract(archive) ==
    LET car == DecodeCAR(archive)
    IN  IF /\ car.roots # <<>> /\ Kind(Head(car.roots)) = "ucan@"
           /\ Head(car.roots)[2] \in car.blocks
        THEN Ok(View(Head(car.roots)[2], car.blocks))
        ELSE Threw

=============================================================================
