------------------------- MODULE AttenuationProofs --------------------------
(***************************************************************************)
(* Attenuation for every capability parser and chains of any length:       *)
(* derivation is transitive (CapabilityProofs), so it is enough that the   *)
(* validator compares neighbours.                                          *)
(***************************************************************************)
EXTENDS Attenuation, CapabilityProofs

-----------------------------------------------------------------------------
(* The invariant: next to what is claimed of it, ChainCoversClaim needs to *)
(* know that every value is plain, that all have the ability of the first, *)
(* and that the first derives from each of them (EarlierDerivesFromLater). *)

IInv ==
    /\ TypeOK
    /\ \A i \in DOMAIN values : /\ PlainResource(values[i].with)
                               /\ values[i].can = values[1].can
    /\ EarlierDerivesFromLater
    /\ ChainCoversClaim

\* The claim alone is a chain the invariant holds of.
LEMMA InitIInv == Init => IInv
<1> SUFFICES ASSUME Init PROVE IInv
  OBVIOUS
<1>1. PICK cap \in Caps : /\ Parses(Desc, cap)
                          /\ granted = <<cap>>
                          /\ values = <<ParseCapability(Desc, cap)>>
  BY DEF Init
<1> DEFINE value == ParseCapability(Desc, cap)
<1>2. value \in Cap /\ PlainResource(value.with)
  <2>1. cap \in Cap /\ PlainResource(cap.with) /\ IsDescriptor(Desc)
    BY AttenuationAssumption
  <2> QED BY <1>1, <2>1, ParseType DEF ParseCapability
<1>3. DefaultDerives(value, value)
  BY <1>2, DerivesFromItself
<1>4. Covers(Desc, cap, value)
  <2>1. ContainsResource(cap.with, value.with)
    BY <1>2, ContainsItself DEF ParseCapability, Cap
  <2>2. ResolveAbility(cap.can, value.can)
    BY <1>1 DEF ParseCapability, Parses, ResolveAbility
  <2>3. \A f \in DOMAIN cap.nb \cap DOMAIN Desc.nb :
            f \in DOMAIN value.nb /\ value.nb[f] = cap.nb[f]
    BY DEF ParseCapability, ReadNb
  <2>4. cap \in Cap
    BY AttenuationAssumption
  <2> QED BY <1>2, <2>1, <2>2, <2>3, <2>4, CoversMeans
<1> HIDE DEF value
<1>5. granted = <<cap>> /\ values = <<value>>
  BY <1>1 DEF value
<1> QED BY <1>2, <1>3, <1>4, <1>5
        DEF IInv, TypeOK, EarlierDerivesFromLater, ChainCoversClaim

\* One more delegation (a selected source of Match.select) keeps the invariant.
LEMMA NextIInv == IInv /\ [Next]_vars => IInv'
<1> SUFFICES ASSUME IInv, [Next]_vars PROVE IInv'
  OBVIOUS
<1>1. CASE UNCHANGED vars
  BY <1>1 DEF vars, IInv, TypeOK, EarlierDerivesFromLater, ChainCoversClaim
<1>2. ASSUME NEW cap \in Caps, Delegate(cap)
      PROVE  IInv'
  <2> DEFINE claimed == Last(values)
             value == ResolveCapability(Desc, claimed, cap)
             n == Len(values)
  <2>1. /\ n \in Nat /\ n > 0 /\ values \in Seq(Cap) /\ granted \in Seq(Caps)
        /\ Len(granted) = n
        /\ claimed = values[n] /\ n \in DOMAIN values
    BY DEF IInv, TypeOK, Last
  <2>2. claimed \in Cap /\ PlainResource(claimed.with) /\ claimed.can = values[1].can
    BY <2>1 DEF IInv
  <2>3. value \in Cap /\ PlainResource(value.with) /\ value.can = values[1].can
    <3>1. value.can = claimed.can /\ value.with \in {cap.with, claimed.with}
      BY DEF ResolveCapability, ResolveResource
    <3>2. cap \in Cap /\ PlainResource(cap.with)
      BY AttenuationAssumption
    <3> QED BY <2>2, <3>1, <3>2, ResolveType
  <2>4. DefaultDerives(claimed, value) /\ Selects(Desc, claimed, cap)
    BY <1>2 DEF Delegate, Selects
  <2>5. granted' = Append(granted, cap) /\ values' = Append(values, value)
    BY <1>2 DEF Delegate
  <2>6. \A i \in 1..n : DefaultDerives(values[i], value)
    <3> SUFFICES ASSUME NEW i \in 1..n PROVE DefaultDerives(values[i], value)
      OBVIOUS
    <3>1. DefaultDerives(values[i], claimed)
      BY <2>1 DEF IInv, EarlierDerivesFromLater
    <3>2. values[i] \in Cap
      BY <2>1
    <3> HIDE DEF claimed, value, n
    <3> QED BY <2>2, <2>3, <2>4, <3>1, <3>2, DerivationTransitive
  <2>7. Covers(Desc, cap, values[1])
    <3>1. values[1] \in Cap /\ cap \in Cap /\ DefaultDerives(values[1], value)
      BY <2>1, <2>6, AttenuationAssumption
    <3> QED BY <2>2, <2>4, <3>1, SelectedCovers
  <2>8. DefaultDerives(value, value)
    BY <2>3, DerivesFromItself
  <2> HIDE DEF claimed, value, n
  <2>9. /\ Len(values') = n + 1 /\ Len(granted') = n + 1
        /\ \A i \in 1..n : values'[i] = values[i] /\ granted'[i] = granted[i]
        /\ values'[n + 1] = value /\ granted'[n + 1] = cap
    BY <2>1, <2>5 DEF n
  <2>10. TypeOK'
    BY <2>1, <2>3, <2>5 DEF TypeOK, n
  <2>11. \A i \in 1..(n + 1) : /\ PlainResource(values'[i].with)
                               /\ values'[i].can = values'[1].can
    BY <2>1, <2>3, <2>9 DEF IInv, n
  <2>12. EarlierDerivesFromLater'
    <3> SUFFICES ASSUME NEW i \in 1..(n + 1), NEW j \in 1..(n + 1), i <= j
                 PROVE  DefaultDerives(values'[i], values'[j])
      BY <2>9, <2>10 DEF EarlierDerivesFromLater, TypeOK
    <3>1. CASE j \in 1..n
      BY <2>1, <2>9, <3>1 DEF IInv, EarlierDerivesFromLater, n
    <3>2. CASE j = n + 1 /\ i \in 1..n
      BY <2>6, <2>9, <3>2
    <3>3. CASE j = n + 1 /\ i = n + 1
      BY <2>8, <2>9, <3>3
    <3> QED BY <2>1, <3>1, <3>2, <3>3
  <2>13. ChainCoversClaim'
    <3> SUFFICES ASSUME NEW i \in 1..(n + 1)
                 PROVE  Covers(Desc, granted'[i], values'[1])
      BY <2>9, <2>10 DEF ChainCoversClaim, TypeOK
    <3>1. CASE i \in 1..n
      BY <2>1, <2>9, <3>1 DEF IInv, ChainCoversClaim, n
    <3>2. CASE i = n + 1
      BY <2>1, <2>7, <2>9, <3>2
    <3> QED BY <2>1, <3>1, <3>2
  <2>14. DOMAIN values' = 1..(n + 1)
    BY <2>9, <2>10 DEF TypeOK
  <2> QED BY <2>10, <2>11, <2>12, <2>13, <2>14 DEF IInv
<1> QED BY <1>1, <1>2 DEF Next

\* So it holds of every chain the loop of Match.select makes.
LEMMA Inductive == Spec => []IInv
  BY InitIInv, NextIInv, PTL DEF Spec

\* The chain and the values the validator makes of it have their types.
THEOREM TypeCorrect == Spec => []TypeOK
<1>1. IInv => TypeOK
  BY DEF IInv
<1> QED BY <1>1, Inductive, PTL

\* In a chain of any length, every delegated capability covers the claim.
THEOREM Attenuates == Spec => []ChainCoversClaim
<1>1. IInv => ChainCoversClaim
  BY DEF IInv
<1> QED BY <1>1, Inductive, PTL

\* Of any two links, not only neighbours, the earlier derives from the later.
THEOREM DerivesAlongTheChain == Spec => []EarlierDerivesFromLater
<1>1. IInv => EarlierDerivesFromLater
  BY DEF IInv
<1> QED BY <1>1, Inductive, PTL

=============================================================================
