-------------------------- MODULE MCDecisionModule --------------------------
(***************************************************************************)
(* Instances of the Decision Module for TLC, after the two shipped         *)
(* configurations sa.conf (EPIC and FinDer) and dm.conf.                   *)
(***************************************************************************)
EXTENDS DecisionModule, TLC

CONSTANTS a1, a2

At(ot, loc, mag) == [ot |-> ot, loc |-> loc, mag |-> mag, lh |-> 1]

MeanOf(f, a) ==
  MapThenSumSet(LAMBDA k : f[k][a], DOMAIN f) \div Cardinality(DOMAIN f)

(* One instance per system, equal uncertainties.                           *)
EqualMean(f) ==
  [ot |-> MeanOf(f, "ot"), loc |-> MeanOf(f, "loc"), mag |-> MeanOf(f, "mag"),
   lh |-> Max({f[k].lh : k \in DOMAIN f})]

SaSystems == [epic |-> "epic", finder |-> "finder"]

(* finder_regions: FinDer does not work at location 10.                    *)
SaRegions == [epic |-> {0, 2, 10}, finder |-> {0, 2}]

NoThreshold == At(0, 0, 0)

(* Two places more than MaxDistToEvent apart, at two times.                *)
TwoPlaces == {At(0, 0, 40), At(2, 10, 40)}

ThreePlaces == {At(0, 0, 40), At(2, 2, 40), At(2, 10, 40)}

(* One place, magnitudes on both sides of TwoAlgMag.                       *)
TwoSizes == {At(0, 0, 40), At(0, 0, 70)}

(* With SizeOnly: a mean of 50 is past the threshold of 40, and held (of   *)
(* 40 and 60) or not (of 50 and 50); 45 is within it.  No change of size   *)
(* is just the threshold, about which the comments of the code differ.     *)
SizeOnly == At(0, 0, 7)
Shifts == {At(0, 0, 40), At(0, 2, 40), At(0, 0, 50), At(0, 0, 60)}

AlgIdSymmetry == Permutations({a1, a2})
=============================================================================
