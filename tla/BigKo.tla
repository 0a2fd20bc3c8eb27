-------------------------------- MODULE BigKo --------------------------------
(***************************************************************************)
(* Which mystery bounties did a hero draw?  The tournament summary tells   *)
(* only their sum; decode_big_ko_allocations finds every way to reach it   *)
(* with the hero's shares of knockouts, posterior_big_ko_bucket_counts     *)
(* weighs them.  An envelope is [sort, cents, weight]; a share is counted  *)
(* in millionths, money in cents.                                          *)
(***************************************************************************)
EXTENDS Integers, Sequences, FiniteSets, SequencesExt, FiniteSetsExt

CONSTANTS
  Envelopes,     \* the bounties of a buy-in
  MaxRecorded    \* MAX_RECORDED_ALLOCATIONS

ShareScale == 1000000

(* The share of a knockout, as the query casts it to bigint: rounded.      *)
Micros(share, of) == (2 * share * ShareScale + of) \div (2 * of)

(* Fault: an uneven split always rounds down.                              *)
FloorCents(cents, micros) == {(cents * micros) \div ShareScale}

(* project_split_bounty_share: what the hero may have got for a share of   *)
(* an envelope.                                                            *)
CandidateCents(cents, micros) ==
  IF cents <= 0 \/ micros <= 0 THEN {0}
  ELSE LET floor == (cents * micros) \div ShareScale
       IN IF (cents * micros) % ShareScale = 0 THEN {floor} ELSE {floor, floor + 1}

(* search_allocations: one envelope and one amount per share, adding up to *)
(* the money.                                                              *)
Draws(micros) ==
  {d \in [cents : {e.cents : e \in Envelopes},
          got : UNION {CandidateCents(e.cents, micros) : e \in Envelopes}] :
     d.got \in CandidateCents(d.cents, micros)}

AllocationsOf(money, shares) ==
  LET draws == [i \in DOMAIN shares |-> Draws(shares[i])]
  IN {a \in [DOMAIN shares -> UNION Range(draws)] :
     /\ \A i \in DOMAIN shares : a[i] \in draws[i]
     /\ money = MapThenSumSet(LAMBDA i : a[i].got, DOMAIN shares)}

(* The search tries the largest envelope first, the lower amount first,    *)
(* and stops after MaxRecorded allocations.                                *)
TriedBefore(a, b) ==
  \E i \in DOMAIN a :
    /\ \A j \in 1..(i - 1) : a[j] = b[j]
    /\ a[i].cents > b[i].cents \/ (a[i].cents = b[i].cents /\ a[i].got < b[i].got)

Recorded(found) ==
  {a \in found : Cardinality({b \in found : TriedBefore(b, a)}) < MaxRecorded}

(* decode_big_ko_allocations.                                              *)
Decode(money, heroShares) ==
  LET shares == SelectSeq(heroShares, LAMBDA s : s > 0)
      found == Recorded(AllocationsOf(money, shares))
      Result(status, allocations) == [status |-> status, allocations |-> allocations]
  IN IF money = 0 /\ shares = <<>> THEN Result("zero", {})
     ELSE IF money <= 0 \/ shares = <<>> \/ Envelopes = {} THEN Result("infeasible", {})
     ELSE IF found = {} THEN Result("infeasible", {})
     ELSE IF Cardinality(found) = 1 THEN Result("exact", found)
     ELSE Result("ambiguous", found)

-----------------------------------------------------------------------------
(* posterior_big_ko_bucket_counts, as whole numbers: an allocation weighs  *)
(* the product of the frequencies of its envelopes, and a bucket holds the *)
(* sum of weight * share over the allocations that draw from it; the code  *)
(* divides by the total weight.                                            *)

Buckets == 1..6   \* big_ko_bucket_key, from x10000 down to x1.5
EnvelopeOf(cents) == CHOOSE e \in Envelopes : e.cents = cents
HasBucket(cents) == EnvelopeOf(cents).sort \in Buckets

(* An allocation with an envelope outside the buckets has no weight.       *)
WeightOf(a) ==
  IF \A i \in DOMAIN a : HasBucket(a[i].cents)
    THEN FoldLeft(LAMBDA acc, d : acc * EnvelopeOf(d.cents).weight, 1, a) ELSE 0

PosteriorMass(decoded, heroShares, bucket) ==
  MapThenSumSet(LAMBDA a :
      WeightOf(a) * MapThenSumSet(LAMBDA i : heroShares[i],
                      {i \in DOMAIN a : EnvelopeOf(a[i].cents).sort = bucket}),
    decoded.allocations)
=============================================================================
