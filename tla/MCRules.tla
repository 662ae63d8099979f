------------------------------ MODULE MCRules ------------------------------
(***************************************************************************)
(* Questions for the rules: values on and around every boundary in the     *)
(* code.                                                                   *)
(***************************************************************************)
EXTENDS Rules

\* Tax: prices on both sides of the slabs of both regimes, with and without
\* tax, odd paise, discounts, overrides, codes without a rate.
Prices == {10, 333, 100000, 100001, 105000, 105001, 112000, 112001, 250000,
           250001, 262500, 262501, 295000, 295001}

Line(price, quantity, discount, inclusive, hsn, override) ==
    [price |-> price, quantity |-> quantity, discount |-> discount,
     inclusive |-> inclusive, hsn |-> hsn, override |-> override]

Code(k, long) == [kind |-> k, long |-> long]
Codes == {Code("apparel", FALSE), Code("apparel", TRUE), Code("fabric", FALSE),
          Code("fabric", TRUE), Code("other", FALSE)}

Place(country, state) == [country |-> country, state |-> state]
Places == {Place("IN", Home), Place("IN", "KA"), Place("IN", "XX"), Place("AE", "")}

Order(lines, place, shipping, day) ==
    [lines |-> lines, place |-> place, shipping |-> shipping, day |-> day]

OneLine ==
    {<<Line(p, q, d, i, h, o)>> :
        p \in Prices, q \in {1, 3}, d \in {0, 1}, i \in BOOLEAN, h \in Codes,
        o \in {None, 18}}

TwoLines ==
    {<<Line(p, 1, 0, i, Code("apparel", FALSE), None),
       Line(r, 3, 1, FALSE, Code("fabric", FALSE), o)>> :
        p \in Prices, r \in Prices, i \in BOOLEAN, o \in {None, 0, 12}}

\* Two lines are shipped for a charge, under the second regime.
SomeBaskets ==
    {Order(lines, place, IF Len(lines) = 2 THEN 9900 ELSE 0,
           IF Len(lines) = 2 THEN 2 ELSE day) :
        lines \in OneLine \cup TwoLines, place \in Places, day \in 0..2}

\* Faces: two detections of any place and shape, a face far in a corner, one
\* cut off by the edge and slivers among them.
SomeDetections == [x : {-3, 0, 6, 15}, y : {0, 6, 13}, w : {1, 7, 11, 16}, h : {7, 10}]

\* Energies below, at and above the thresholds, of up to two regions.
Energies == {5, 30, 31}
Befores  == {5, 45, 400}
Good == [bytes |-> 10, sniffed |-> "JPEG", format |-> "JPEG", width |-> 4,
         height |-> 3, intact |-> TRUE]
Files == {Good, [Good EXCEPT !.bytes = 0], [Good EXCEPT !.sniffed = "GIF"],
          [Good EXCEPT !.format = "PNG"], [Good EXCEPT !.width = 0],
          [Good EXCEPT !.intact = FALSE]}
SomeLimits == [bytes |-> 20, formats |-> {"JPEG", "PNG", "WEBP"}, pixels |-> 12,
               dimension |-> 4]

BlursOf(n) ==
    [file : Files, before : [1..n -> Befores],
     after : [0..MaxEscalations -> [1..n -> Energies]]]

SomeBlurs == BlursOf(0) \cup BlursOf(1) \cup BlursOf(2)

\* Measurements: what a garment requires, with the fields of another garment's
\* draft or without a required one; each at its lowest, highest or middle
\* value, at most one of them just above its range.
Trial(n, at) ==
    CASE at = "low"  -> Ranges[n].min * 1000
      [] at = "mid"  -> (Ranges[n].min + Ranges[n].max) * 500
      [] at = "high" -> Ranges[n].max * 1000

DraftOf(g, at, over) ==
    [garment |-> g,
     inches |-> [n \in DOMAIN at |-> Trial(n, at[n]) + IF n = over THEN 30000 ELSE 0]]

DraftsOf(g, names) ==
    {DraftOf(g, at, "none") : at \in [names -> {"low", "mid", "high"}]}
        \cup {DraftOf(g, [n \in names |-> "mid"], over) : over \in names}

DraftsFor(g) ==
    DraftsOf(g, Required[g]) \cup DraftsOf(g, Required[g] \cup {"wrist", "bicep"})
    \cup DraftsOf(g, Required[g] \cup {"knee", "thigh"})

SomeDrafts ==
    DraftsFor("sharara") \cup DraftsFor("farshi_palazzo")
    \cup DraftsOf("blouse", Required["blouse"])
    \cup DraftsOf("blouse", Required["blouse"] \ {"armhole"})

\* Nothing is asked.
NoQuestion == kind = "none" /\ ask = Unanswered /\ answer = Unanswered
=============================================================================
