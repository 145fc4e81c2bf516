------------------------- MODULE ValidatorInvariant -------------------------
(***************************************************************************)
(* The invariant of the search: what the calls in progress have in common. *)
(* GrantsOnlyChains speaks of the verdict only, and a verdict is assembled *)
(* from what frames far apart on the stack hold; the invariant says what   *)
(* each frame guarantees of its own data, how a frame fits on the one it   *)
(* was called from, and which claim frame an authorize frame works for.    *)
(***************************************************************************)
EXTENDS Validator

\* The delegations a frame has, or may still get.
Offered(f) == ToSet(f.batch) \cup f.links

\* What a frame guarantees of its own data.  Only proofs of the delegation it
\* works on are in an authorize frame, once aligned they delegate to its
\* issuer, and whatever it selected continues the path that led to it.
FrameOK(f) ==
    /\ f.kind = "claim" => f.path = <<>>
    /\ f.kind = "authorize" =>
          /\ IsPath(ucan, Wanted(f.about), f.path)
          /\ Offered(f) \subseteq ToSet(ucan[Last(f.path).src].prf)
          /\ f.phase # "resolve" =>
                \A d \in ToSet(f.batch) : ucan[d].aud = ucan[Last(f.path).src].iss
    /\ \A s \in ToSet(f.sources) : /\ s.src \in ToSet(f.batch)
                                   /\ s.cap \in ToSet(ucan[s.src].caps)
    /\ f.phase = "resolve" => f.sources = <<>> /\ f.todo = <<>>
    /\ \A m \in ToSet(f.todo) :
          /\ m.src \in ToSet(f.batch)
          /\ IsPath(ucan, Wanted(f.about), Append(f.path, m))
    /\ f.phase = "keys" => f.next <= Len(f.batch)
    /\ f.phase = "approve" =>
          /\ f.kind = "claim"
          /\ f.todo # <<>>
          /\ IsChain(ucan, Wanted(f.about), f.chain)
          /\ f.chain[1].src \in ToSet(f.batch)

\* g may have been called from f: to prove the match f explores, or to find a
\* session for the delegation f validates.
MayCall(f, g) ==
    \/ /\ g.kind = "authorize"
       /\ f.phase = "search" /\ f.todo # <<>>
       /\ g.about = f.about
       /\ g.path = Append(f.path, Head(f.todo))
    \/ /\ g.kind = "claim"
       /\ f.phase = "validate" /\ f.next <= Len(f.batch)
       /\ g.about = <<f.batch[f.next]>>
       /\ Offered(g) \subseteq ToSet(f.batch) \ {f.batch[f.next]}

\* The claim frame that frame i works for is as many frames down as its path
\* is long, and is exploring the match the path starts with.
WorksFor(s, i) ==
    LET c == i - Len(s[i].path)
    IN  /\ c \in 1..i
        /\ s[c].kind = "claim"
        /\ s[c].about = s[i].about
        /\ s[i].path # <<>> =>
              /\ s[c].phase = "search"
              /\ s[c].todo # <<>>
              /\ s[i].path[1] = Head(s[c].todo)

StackOK(s) ==
    /\ \A i \in 1..Len(s) : FrameOK(s[i]) /\ WorksFor(s, i)
    /\ \A i \in 1..(Len(s) - 1) : MayCall(s[i], s[i + 1])
    /\ s # <<>> => /\ s[1].kind = "claim"
                   /\ s[1].about = <<>>
                   /\ Offered(s[1]) \subseteq ToSet(Presented)

\* Every call in progress was made by the one below it, holds only what that
\* call could give it, and has so far built a path that is a chain but for its
\* root.
Coherent == StackOK(stack)

IInv == TypeOK /\ Coherent /\ GrantsOnlyChains

=============================================================================
