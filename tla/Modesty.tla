------------------------------ MODULE Modesty ------------------------------
(***************************************************************************)
(* Modesty badges, advisories and score of a garment, the catalogue's      *)
(* filters that claim to agree with them, and what may be stored: apps/    *)
(* catalog/modesty.py, enums.py, filters.py, models.py, serializers.py.    *)
(***************************************************************************)
EXTENDS Integers, Sequences

\* Mutant: the order in which the choices are declared.
SlitOrderDeclared == <<"none", "ankle", "mid_calf", "knee", "thigh">>

\* From least to most covering.
SlitOrder     == <<"thigh", "knee", "mid_calf", "ankle", "none">>
SleeveOrder   == <<"sleeveless", "cap", "short", "elbow", "three_quarter",
                   "full", "extra_long">>
NecklineOrder == <<"deep", "moderate", "high", "closed">>
BackOrder     == <<"open", "deep", "moderate", "full">>
FaceCoverages == {"exposed", "partial", "full"}

Values(order) == {order[i] : i \in DOMAIN order}

CoverageRank(value, order) ==
    (CHOOSE i \in DOMAIN order : order[i] = value) - 1

ModestyProfiles ==
    [is_opaque : BOOLEAN, has_full_lining : BOOLEAN, slit : Values(SlitOrder),
     sleeve : Values(SleeveOrder), neckline : Values(NecklineOrder),
     back : Values(BackOrder), face : FaceCoverages,
     requires_slip : BOOLEAN, is_sheer_overlay_only : BOOLEAN]

\* What the write serialiser and the table's constraint let through.
Storable(p) == ~(p.is_sheer_overlay_only /\ p.is_opaque)

-----------------------------------------------------------------------------
FullSleeves  == {"full", "extra_long"}
CoveredBacks == {"moderate", "full"}
HighNecks    == {"high", "closed"}

FullyCovered(p) ==
    /\ p.is_opaque /\ p.has_full_lining
    /\ ~p.is_sheer_overlay_only /\ ~p.requires_slip
    /\ p.sleeve \in FullSleeves
    /\ p.slit \in {"none", "ankle"}
    /\ p.neckline \in HighNecks
    /\ p.back \in CoveredBacks

\* Whether a garment earns each badge, and what it has to disclose.
BadgeEarned(p) ==
    [fully_lined     |-> p.has_full_lining /\ ~p.is_sheer_overlay_only,
     opaque_fabric   |-> p.is_opaque /\ ~p.is_sheer_overlay_only,
     full_sleeves    |-> p.sleeve \in FullSleeves,
     no_slit         |-> p.slit = "none",
     modest_neckline |-> p.neckline \in HighNecks,
     covered_back    |-> p.back \in CoveredBacks,
     face_modest     |-> p.face \in {"partial", "full"},
     full_coverage   |-> FullyCovered(p)]

AdvisoryDue(p) ==
    [slip_required |-> p.requires_slip,
     sheer_overlay |-> p.is_sheer_overlay_only,
     sleeveless    |-> p.sleeve = "sleeveless",
     open_back     |-> p.back \in {"open", "deep"},
     high_slit     |-> p.slit \in {"thigh", "knee"},
     deep_neckline |-> p.neckline = "deep"]

Badges(p)     == {b \in DOMAIN BadgeEarned(p) : BadgeEarned(p)[b]}
Advisories(p) == {a \in DOMAIN AdvisoryDue(p) : AdvisoryDue(p)[a]}

-----------------------------------------------------------------------------
(* The score: the weighted sum over twelve, halved for a see-through       *)
(* fabric, halved again for a sheer overlay, times 0.85 with a slip.       *)
(* Exact here; the code's floats may round an exact half the other way.    *)

Weighted(p) ==
    75 * CoverageRank(p.slit, SlitOrder) + 60 * CoverageRank(p.sleeve, SleeveOrder)
    + 100 * CoverageRank(p.neckline, NecklineOrder)
    + 80 * CoverageRank(p.back, BackOrder)

\* round() of a quotient: to the nearest, an exact half to the even one.
RoundHalfEven(n, d) ==
    LET down == n \div d
        half == 2 * (n % d) = d
    IN  IF half THEN down + (down % 2) ELSE (2 * n + d) \div (2 * d)

CoverageScore(p) ==
    RoundHalfEven(Weighted(p) * (IF p.is_opaque THEN 2 ELSE 1)
                              * (IF p.is_sheer_overlay_only THEN 1 ELSE 2)
                              * (IF p.requires_slip THEN 17 ELSE 20),
                  12 * 2 * 2 * 20)

-----------------------------------------------------------------------------
(* What a shopper's filters select from the columns. *)

\* Mutant: the filter forgets the slip.
FullyCoveredQueryAnySlip(p) ==
    /\ p.is_opaque /\ p.has_full_lining /\ ~p.is_sheer_overlay_only
    /\ p.sleeve \in {"full", "extra_long"} /\ p.slit \in {"none", "ankle"}
    /\ p.neckline \in {"high", "closed"} /\ p.back \in {"moderate", "full"}

FullyCoveredQuery(p) ==
    /\ p.is_opaque /\ p.has_full_lining
    /\ ~p.is_sheer_overlay_only /\ ~p.requires_slip
    /\ p.sleeve \in {"full", "extra_long"}
    /\ p.slit \in {"none", "ankle"}
    /\ p.neckline \in {"high", "closed"}
    /\ p.back \in {"moderate", "full"}

FaceModestQuery(p) == p.face \in {"partial", "full"}

\* The boolean facets: an absent or false switch selects everything.
FullSleevesQuery(p) == p.sleeve \in {"full", "extra_long"}
NoSlitQuery(p)      == p.slit = "none"

Selects(p) ==
    [full_coverage |-> FullyCoveredQuery(p), face_modest |-> FaceModestQuery(p),
     full_sleeves |-> FullSleevesQuery(p), no_slit |-> NoSlitQuery(p)]
=============================================================================
