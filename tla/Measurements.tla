---------------------------- MODULE Measurements ----------------------------
(***************************************************************************)
(* Which sets of body measurements are accepted: by the server, apps/      *)
(* tailoring/validators.py, and by the storefront's drawer, lib/api/       *)
(* fit-schema.ts with lib/units.ts and components/FitDrawer.tsx.           *)
(*                                                                         *)
(* A measurement is a number of thousandths of its unit.  Lengths in both  *)
(* units are compared in ticks, 254000 to the inch, so that 2.54 cm is     *)
(* exactly one inch: the server's Decimals do the same.  The drawer's      *)
(* floats order lengths that differ as the ticks do; of equal ones, which  *)
(* lie on a bound of a rule, the rounding decides, and is modelled.        *)
(***************************************************************************)
EXTENDS Integers

Units == {"inch", "cm"}
Inch == 254000

\* Mutant: numbers are compared whatever their unit.
TicksOfNumber(value, unit) == value * 254

Ticks(value, unit) == IF unit = "inch" THEN value * 254 ELSE value * 100

Between(a, b) == [min |-> a, max |-> b]

\* In inches; the same table on both sides, through the generated contract.
Ranges ==
    [bust |-> Between(24, 70), underbust |-> Between(22, 66), waist |-> Between(18, 70),
     hip |-> Between(24, 80), shoulder |-> Between(10, 26),
     kameez_length |-> Between(20, 60), sleeve_length |-> Between(0, 30),
     armhole |-> Between(10, 28), bicep |-> Between(7, 28), wrist |-> Between(4, 14),
     neck_depth_front |-> Between(2, 20), neck_depth_back |-> Between(2, 20),
     trouser_length |-> Between(20, 50), thigh |-> Between(12, 45),
     knee |-> Between(10, 32), ankle_opening |-> Between(6, 30),
     farshi_flare |-> Between(40, 200), ghera |-> Between(40, 240),
     lehenga_length |-> Between(30, 55), blouse_length |-> Between(10, 30),
     dupatta_length |-> Between(60, 120)]

Names == DOMAIN Ranges

Trunk == {"bust", "waist", "hip"}
Gown  == Trunk \cup {"shoulder", "kameez_length", "sleeve_length"}
Flared == {"waist", "hip", "trouser_length", "farshi_flare"}

Required ==
    [suit_set |-> Gown, gown |-> Gown, tail_gown |-> Gown, long_jacket |-> Gown,
     lehenga |-> Trunk \cup {"lehenga_length", "blouse_length"},
     sharara |-> Trunk \cup {"kameez_length", "trouser_length"},
     gharara |-> Trunk \cup {"kameez_length", "trouser_length"},
     farshi_palazzo |-> Flared, farshi_salwar |-> Flared,
     palazzo |-> {"waist", "hip", "trouser_length"},
     blouse |-> {"bust", "underbust", "shoulder", "blouse_length", "sleeve_length",
                 "armhole"},
     jacket |-> {"bust", "waist", "shoulder", "sleeve_length"},
     dress_material |-> {}, dupatta |-> {}]

Garments == DOMAIN Required

-----------------------------------------------------------------------------
(* A set of measurements m: [S -> Int] for some names S, all in one unit.  *)

InTicks(m, unit) == [n \in DOMAIN m |-> Ticks(m[n], unit)]

Plausible(n, ticks) == Ranges[n].min * Inch <= ticks /\ ticks <= Ranges[n].max * Inch

\* a may exceed b by at most slack inches, where both were measured.
AtMost(t, a, b, slack) ==
    a \in DOMAIN t /\ b \in DOMAIN t => t[a] <= t[b] + slack * Inch

\* The server's rules across fields.
Coherent(t) ==
    /\ AtMost(t, "underbust", "bust", 0)
    /\ AtMost(t, "waist", "bust", 24)
    /\ AtMost(t, "waist", "hip", 24)
    /\ AtMost(t, "wrist", "bicep", 0)
    /\ AtMost(t, "knee", "thigh", 0)
    /\ AtMost(t, "kameez_length", "trouser_length", 18)
    /\ AtMost(t, "farshi_flare", "ghera", 0)

\* validate_measurements: a set for one garment, or for none in particular.
ServerAccepts(m, unit, garment) ==
    LET t == InTicks(m, unit)
    IN  /\ unit \in Units
        /\ DOMAIN m \subseteq Names
        /\ \A n \in DOMAIN m : m[n] > 0 /\ Plausible(n, t[n])
        /\ garment # "none" => garment \in Garments /\ Required[garment] \subseteq DOMAIN m
        /\ Coherent(t)

-----------------------------------------------------------------------------
(* The drawer keeps inches, whatever unit it shows.                        *)

\* What a customer types, in the unit shown, as it is kept (in ticks).
Kept(typed, shown) == InTicks(typed, shown)

\* The bounds that typed in the unit shown come out above themselves: 66.04 / 2.54
\* is 26.000000000000004, and every other bound is kept on its own side.
RoundedUp(shown) == IF shown = "cm" THEN {"shoulder"} ELSE {}

\* Whether floats put a difference of exactly 24 inches above 24 depends on its
\* terms: slips.
WaistNearBustAndHip(t, slips) ==
    LET limit == IF slips THEN 24 * Inch - 1 ELSE 24 * Inch
    IN  Trunk \subseteq DOMAIN t =>
            \A n \in {"bust", "hip"} :
                t["waist"] <= t[n] + limit /\ t[n] <= t["waist"] + limit

\* fitProfileSchema: the required measurements, the range of each, and the
\* two rules across fields.
DrawerAccepts(typed, shown, garment, slips) ==
    LET t == Kept(typed, shown)
    IN  /\ Required[garment] \subseteq DOMAIN t
        /\ \A n \in DOMAIN t : Plausible(n, t[n])
        /\ \A n \in RoundedUp(shown) \cap DOMAIN t : t[n] < Ranges[n].max * Inch
        /\ AtMost(t, "underbust", "bust", 0)
        /\ WaistNearBustAndHip(t, slips)
=============================================================================
