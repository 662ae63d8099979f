-------------------------------- MODULE GST --------------------------------
(***************************************************************************)
(* The GST engine, apps/taxes: pure operators over money in paise.  A      *)
(* decimal quantised to two places ROUND_HALF_UP is a RoundDiv, and a rate *)
(* is a whole percentage.  An HSN code is its kind and whether it is       *)
(* written longer than its four-digit heading: flat rates are looked up by *)
(* the whole code, value slabs by the heading.                             *)
(***************************************************************************)
EXTENDS Integers, Sequences, Functions

CONSTANT Today  \* the day on which quotes are asked for

Home == "MH"
States == {Home, "KA", "DL"}   \* INDIAN_STATE_GST_CODES

\* n / d rounded half up, for n >= 0.
RoundDiv(n, d) == (2 * n + d) \div (2 * d)

-----------------------------------------------------------------------------
(* Regimes, in order of effective date. *)

Regimes ==
    <<[from |-> 1, threshold |-> 100000, below |-> 5, above |-> 12, fabric |-> 5,
       tailoring |-> 5, courier |-> 18, permitted |-> {0, 5, 12, 18, 28}],
      [from |-> 2, threshold |-> 250000, below |-> 5, above |-> 18, fabric |-> 5,
       tailoring |-> 5, courier |-> 18, permitted |-> {0, 5, 18, 40}]>>

RegimeExists(day) == \E i \in DOMAIN Regimes : Regimes[i].from <= day

\* The last regime that has come into force.
ResolveRegime(day) ==
    LET applicable == {i \in DOMAIN Regimes : Regimes[i].from <= day}
    IN  Regimes[CHOOSE i \in applicable : \A j \in applicable : j <= i]

-----------------------------------------------------------------------------
(* Requests. *)

None == -1  \* no rate_override

ValidPlace(place) == place.country = "IN" => place.state \in States

SupplyType(place) ==
    IF place.country # "IN" THEN "export"
    ELSE IF place.state = Home THEN "intra_state" ELSE "inter_state"

Net(line) == line.price * line.quantity - line.discount

Lawful(rate, day) == RegimeExists(day) /\ rate \in ResolveRegime(day).permitted

\* What the serialiser and TaxableLine accept: an override is looked up among
\* today's rates and among those of the day of supply.
ValidLine(line, day) ==
    /\ line.quantity >= 1 /\ line.price >= 0 /\ line.discount >= 0
    /\ Net(line) >= 0
    /\ line.override # None =>
          Lawful(line.override, Today) /\ Lawful(line.override, day)

-----------------------------------------------------------------------------
(* Rates. *)

FlatRate(hsn, regime) ==
    IF hsn.long THEN None
    ELSE CASE hsn.kind \in {"tailoring", "alteration"} -> regime.tailoring
           [] hsn.kind = "fabric"  -> regime.fabric
           [] hsn.kind = "courier" -> regime.courier
           [] OTHER -> None

\* The value net of tax, when the slab is tested on a tax-inclusive price.
NetOfTax(value, rate) == RoundDiv(value * 100, 100 + rate)

\* Mutant: the slab is tested on the price with its tax.
InclusivePerPieceGross(perPiece, regime) == perPiece

\* The higher slab is tried first; a price neither slab explains is left at
\* its value under the lower one.
InclusivePerPiece(perPiece, regime) ==
    IF NetOfTax(perPiece, regime.above) > regime.threshold
    THEN NetOfTax(perPiece, regime.above)
    ELSE NetOfTax(perPiece, regime.below)

PerPieceTaxableValue(line, regime) ==
    LET perPiece == RoundDiv(Net(line), line.quantity)
    IN  IF line.inclusive THEN InclusivePerPiece(perPiece, regime) ELSE perPiece

SlabRate(line, regime) ==
    IF PerPieceTaxableValue(line, regime) <= regime.threshold
    THEN regime.below ELSE regime.above

\* None where the engine raises TaxError.
ResolveRate(line, day) ==
    LET regime == ResolveRegime(day)
    IN  IF line.override # None THEN line.override
        ELSE IF FlatRate(line.hsn, regime) # None THEN FlatRate(line.hsn, regime)
        ELSE IF line.hsn.kind = "apparel" THEN SlabRate(line, regime)
        ELSE None

-----------------------------------------------------------------------------
(* The tax of a line. *)

TaxableValue(line, rate) ==
    IF line.inclusive THEN NetOfTax(Net(line), rate) ELSE Net(line)

\* Mutant: each half is rounded by itself and the residue is lost.
HalvesRounded(taxable, rate) ==
    [cgst |-> RoundDiv(taxable * rate, 200), sgst |-> RoundDiv(taxable * rate, 200)]

\* Centre and state get half each, and the state the rounding residue.
Halves(taxable, rate) ==
    LET cgst == RoundDiv(taxable * rate, 200)
    IN  [cgst |-> cgst, sgst |-> RoundDiv(taxable * rate, 100) - cgst]

Resolves(line, place, day) ==
    SupplyType(place) = "export" \/ ResolveRate(line, day) # None

LineTax(line, place, day) ==
    LET supply  == SupplyType(place)
        rate    == IF supply = "export" THEN 0 ELSE ResolveRate(line, day)
        taxable == TaxableValue(line, rate)
        halves  == IF supply = "intra_state" THEN Halves(taxable, rate)
                   ELSE [cgst |-> 0, sgst |-> 0]
        igst    == IF supply = "inter_state" THEN RoundDiv(taxable * rate, 100) ELSE 0
    IN  [rate |-> rate, taxable |-> taxable, cgst |-> halves.cgst,
         sgst |-> halves.sgst, igst |-> igst,
         tax |-> halves.cgst + halves.sgst + igst]

-----------------------------------------------------------------------------
(* The tax of an order: lines, place, shipping charge and day of supply. *)

\* Shipping follows the highest rate among the goods.
ShippingLine(charge, taxes, regime) ==
    LET rates == {taxes[i].rate : i \in DOMAIN taxes}
        principal == CHOOSE r \in rates : \A s \in rates : s <= r
    IN  [price |-> charge, quantity |-> 1, discount |-> 0, inclusive |-> FALSE,
         hsn |-> [kind |-> "courier", long |-> FALSE],
         override |-> IF principal \in regime.permitted THEN principal
                      ELSE regime.courier]

AllLines(order) ==
    LET goods == [i \in DOMAIN order.lines |->
                    LineTax(order.lines[i], order.place, order.day)]
    IN  IF order.shipping = 0 THEN goods
        ELSE Append(goods, LineTax(ShippingLine(order.shipping, goods,
                                                ResolveRegime(order.day)),
                                   order.place, order.day))

\* The sum of one field over some of the lines.
Total(lines, field, which) ==
    SumFunctionOnSet([i \in DOMAIN lines |-> lines[i][field]], which)

\* Taxable value and tax by rate.
RateSummary(lines) ==
    LET At(rate) == {i \in DOMAIN lines : lines[i].rate = rate}
    IN  [rate \in {lines[i].rate : i \in DOMAIN lines} |->
            [taxable |-> Total(lines, "taxable", At(rate)),
             tax |-> Total(lines, "tax", At(rate))]]

ValidRequest(order) ==
    /\ Len(order.lines) > 0
    /\ ValidPlace(order.place)
    /\ \A i \in DOMAIN order.lines : ValidLine(order.lines[i], order.day)

\* A day before the first regime is an error that only the validation catches.
Escapes(order) == ValidRequest(order) /\ ~RegimeExists(order.day)

Accepts(order) ==
    /\ ValidRequest(order) /\ RegimeExists(order.day)
    /\ \A i \in DOMAIN order.lines : Resolves(order.lines[i], order.place, order.day)

Totals(lines) ==
    LET All(field) == Total(lines, field, DOMAIN lines)
        tax == All("cgst") + All("sgst") + All("igst")
    IN  [lines |-> lines, taxable |-> All("taxable"), cgst |-> All("cgst"),
         sgst |-> All("sgst"), igst |-> All("igst"), tax |-> tax,
         grand |-> All("taxable") + tax, summary |-> RateSummary(lines)]

Breakdown(order) == Totals(AllLines(order))
=============================================================================
