------------------------------- MODULE Rules -------------------------------
(***************************************************************************)
(* The store's pure computations behind their endpoints: a tax quote, the  *)
(* badges of a garment, the detection and the blur of faces, and a set of  *)
(* measurements typed into the drawer and sent to the server.  A behaviour *)
(* asks one question and gets one answer; the properties compare the       *)
(* answer with a definition of what is right.                              *)
(***************************************************************************)
EXTENDS GST, Modesty, FaceBlur, Measurements

CONSTANTS
    Baskets,    \* tax quotes asked for: [lines, place, shipping, day]
    Detections, \* boxes that a detector may report
    Blurs,      \* photos sent to be blurred: [file, before, after]
    Limits,     \* of an upload: [bytes, formats, pixels, dimension]
    Drafts      \* garments and what was typed for them: [garment, inches]

TaxLines ==
    [price : Int, quantity : Int, discount : Int, inclusive : BOOLEAN,
     hsn : [kind : STRING, long : BOOLEAN], override : Int]

\* Only the types of the requests, as their serialisers produce them; the
\* rules themselves decide what is acceptable.  Energies are what the blur of
\* each escalation left of each region.  Lengths are multiples of a twentieth
\* of an inch, which is a whole number of thousandths of a centimetre.
ASSUME RulesAssumption ==
    /\ \A order \in Baskets :
          /\ order = [lines |-> order.lines, place |-> order.place,
                      shipping |-> order.shipping, day |-> order.day]
          /\ order.lines \in Seq(TaxLines)
          /\ order.place \in [country : STRING, state : STRING]
          /\ order.shipping \in Nat /\ order.day \in Int
    /\ \A photo \in Blurs :
          /\ photo.before \in Seq(Nat)
          /\ DOMAIN photo.after = 0..MaxEscalations
          /\ \A e \in 0..MaxEscalations :
                photo.after[e] \in [DOMAIN photo.before -> Nat]
    /\ \A draft \in Drafts :
          /\ draft.garment \in Garments
          /\ DOMAIN draft.inches \subseteq Names
          /\ \A n \in DOMAIN draft.inches :
                draft.inches[n] \in Int /\ draft.inches[n] % 50 = 0

VARIABLES kind, ask, answer

rulesVars == <<kind, ask, answer>>

Unanswered == [unanswered |-> TRUE]
Refused    == [refused |-> TRUE]
Failed     == [failed |-> TRUE]   \* an error nobody handles: status 500

-----------------------------------------------------------------------------
(* Tax. *)

TaxQuote(order) ==
    IF Escapes(order) THEN Failed
    ELSE IF Accepts(order) THEN Breakdown(order) ELSE Refused

QuoteTax == kind = "tax" /\ answer' = TaxQuote(ask)

\* A quote's books balance: the summary by rate accounts for all value and
\* tax; the two halves at home are the whole tax elsewhere, line by line and
\* in total (the rounding residue is not lost); a line priced with tax is
\* split into value and tax within a paisa of its price; an export is untaxed,
\* its shipping included (taxes/services.py, calculate_gst).
TaxAddsUp ==
    kind = "tax" /\ answer \notin {Unanswered, Refused, Failed} =>
        LET away == Breakdown([ask EXCEPT !.place = [country |-> "IN", state |-> "KA"]])
            InSummary(field) ==
                SumFunction([r \in DOMAIN answer.summary |-> answer.summary[r][field]])
            Split(i) ==
                answer.lines[i].taxable + answer.lines[i].tax - Net(ask.lines[i])
        IN  /\ InSummary("taxable") = answer.taxable /\ InSummary("tax") = answer.tax
            /\ IF ask.place.country = "IN"
               THEN /\ answer.tax = away.tax
                    /\ \A i \in DOMAIN answer.lines :
                          answer.lines[i].tax = away.lines[i].tax
                    /\ \A i \in DOMAIN ask.lines :
                          ask.lines[i].inclusive => Split(i) \in -1..1
               ELSE answer.grand = answer.taxable /\ answer.tax = 0

\* What a rate says about the value it is computed on: at or below the
\* threshold under the lower rate, above it under the higher one.
Explained(line, rate, regime) ==
    LET perPiece == RoundDiv(Net(line), line.quantity)
        value    == IF line.inclusive THEN NetOfTax(perPiece, rate) ELSE perPiece
    IN  (rate = regime.below) = (value <= regime.threshold)

\* Whenever one of the two apparel rates is consistent with the value it
\* leaves, the engine charges such a rate.  (Between the two thresholds of a
\* tax-inclusive price neither is; see the README.)
SlabExplainsRate ==
    kind = "tax" /\ answer \notin {Unanswered, Refused, Failed} /\ ask.place.country = "IN" =>
        \A i \in DOMAIN ask.lines :
            LET regime == ResolveRegime(ask.day)
                line   == ask.lines[i]
            IN  /\ line.hsn.kind = "apparel" /\ line.override = None
                /\ \E r \in {regime.below, regime.above} : Explained(line, r, regime)
                => Explained(line, answer.lines[i].rate, regime)

-----------------------------------------------------------------------------
(* Modesty. *)

Assessment(profile) ==
    [badges |-> Badges(profile), advisories |-> Advisories(profile),
     score |-> CoverageScore(profile)]

Assess == kind = "modesty" /\ answer' = Assessment(ask)

\* Four of a garment's badges have a filter of their name (full coverage, modest
\* for the face, full sleeves, no slit): badge and filter agree on every
\* garment, and the strongest claim implies the claims it sums up and leaves
\* nothing to disclose.
FacetsAgree ==
    kind = "modesty" /\ answer # Unanswered =>
        /\ \A b \in DOMAIN Selects(ask) : Selects(ask)[b] <=> b \in answer.badges
        /\ "full_coverage" \in answer.badges =>
              /\ answer.advisories = {}
              /\ {"fully_lined", "opaque_fabric", "full_sleeves", "modest_neckline",
                  "covered_back"} \subseteq answer.badges

\* Where a slit ends, from the thigh down, and where a sleeve does.
SlitsDown   == <<"thigh", "knee", "mid_calf", "ankle", "none">>
SleevesDown == <<"sleeveless", "cap", "short", "elbow", "three_quarter", "full",
                 "extra_long">>

\* The score is an honest sort key: covering more in one dimension never
\* lowers it, and nothing see-through outscores a fully covered garment.
ScoreIsHonest ==
    kind = "modesty" /\ answer # Unanswered =>
        /\ answer.score \in 0..100
        /\ LET Rises(field, worn) ==
                 \A i, j \in DOMAIN worn :
                     ask[field] = worn[i] /\ i < j =>
                         CoverageScore([ask EXCEPT ![field] = worn[j]]) >= answer.score
           IN  /\ Rises("slit", SlitsDown) /\ Rises("sleeve", SleevesDown)
               /\ Rises("neckline", <<"deep", "moderate", "high", "closed">>)
               /\ Rises("back", <<"open", "deep", "moderate", "full">>)
        /\ "full_coverage" \in answer.badges => answer.score > 50
        /\ ~ask.is_opaque => answer.score <= 50

-----------------------------------------------------------------------------
(* Faces. *)

DetectFaces == kind = "faces" /\ answer' = [kept |-> Detect(ask.found)]

\* In pixels.  The code has no such limit: see the README.
SmallestFace == 7

\* Merging two models' detections loses no face: the centre of every detection
\* lies in the ellipse that is blurred, also when its box was dropped for a
\* larger one and when the box is cut off by the edge.  Boxes of a few pixels
\* are left out, since their margins are rounded away.
CentreIsBlurred ==
    kind = "faces" /\ answer # Unanswered =>
        \A i \in DOMAIN ask.found :
            LET face == Clamped(ask.found[i])
            IN  face.w >= SmallestFace /\ face.h >= SmallestFace =>
                  Blurred(face.x + face.w \div 2, face.y + face.h \div 2, answer.kept)

BlurAnswer(photo) ==
    [report |-> BlurFaces(photo.before, photo.after),
     response |-> BlurEndpoint(photo.file, Limits, photo.before, photo.after)]

Blur == kind = "blur" /\ answer' = BlurAnswer(ask)

\* The endpoint returns an image exactly when some escalation destroyed every
\* face of a photo that has faces, and the one it returns destroyed them all
\* and was the first to.
PublishedIsDestroyed ==
    kind = "blur" /\ answer # Unanswered =>
        LET destroyed(e, r) ==
                /\ ask.after[e][r] <= 30
                /\ ask.before[r] <= 40 \/ 20 * ask.after[e][r] <= 9 * ask.before[r]
            all(e) == \A r \in DOMAIN ask.before : destroyed(e, r)
        IN  IF answer.response.code = 200
            THEN /\ ask.before # <<>>
                 /\ answer.report.escalations \in 0..MaxEscalations
                 /\ all(answer.report.escalations)
                 /\ \A e \in 0..(answer.report.escalations - 1) : ~all(e)
            ELSE \/ ~Decodes(ask.file, Limits)
                 \/ ask.before = <<>>
                 \/ \A e \in 0..MaxEscalations : ~all(e)

-----------------------------------------------------------------------------
(* Measurements. *)

\* The same lengths in thousandths of a centimetre.
InCm(m) == [n \in DOMAIN m |-> (m[n] * 127) \div 50]

FitAnswer(draft, slips, slipsCm) ==
    [inch |-> ServerAccepts(draft.inches, "inch", draft.garment),
     cm |-> ServerAccepts(InCm(draft.inches), "cm", draft.garment),
     drawer |-> DrawerAccepts(draft.inches, "inch", draft.garment, slips),
     drawerCm |-> DrawerAccepts(InCm(draft.inches), "cm", draft.garment, slipsCm)]

CheckFit ==
    /\ kind = "fit"
    /\ \E slips, slipsCm \in BOOLEAN : answer' = FitAnswer(ask, slips, slipsCm)

\* What the drawer lets through and the server refuses: a sleeve of length 0,
\* and the server's rules the drawer does not have.
OnlyTheServerObjects(m) ==
    LET exceeds(a, b, slack) ==
            a \in DOMAIN m /\ b \in DOMAIN m /\ m[a] > m[b] + slack * 1000
    IN  \/ \E n \in DOMAIN m : m[n] = 0
        \/ exceeds("wrist", "bicep", 0) \/ exceeds("knee", "thigh", 0)
        \/ exceeds("kameez_length", "trouser_length", 18)
        \/ exceeds("farshi_flare", "ghera", 0)
        \/ ~(Trunk \subseteq DOMAIN m)
              /\ (exceeds("waist", "bust", 24) \/ exceeds("waist", "hip", 24))

\* Lengths on a bound where the drawer's floats decide: its widest shoulder,
\* which is refused in centimetres, and a waist 24 inches from bust or hip.
RoundingDecides(m) ==
    \/ "shoulder" \in DOMAIN m /\ m["shoulder"] = Ranges["shoulder"].max * 1000
    \/ /\ Trunk \subseteq DOMAIN m
       /\ \E n \in {"bust", "hip"} : m["waist"] - m[n] \in {-24000, 24000}

\* The server's answer does not depend on the unit the customer works in, nor
\* the drawer's but for lengths on a bound that its floats miss; what it lets
\* through in inches the server accepts, but for the named differences.
MeasurementsAgree ==
    kind = "fit" /\ answer # Unanswered =>
        /\ answer.cm <=> answer.inch
        /\ (answer.drawerCm <=> answer.drawer) \/ RoundingDecides(ask.inches)
        /\ answer.drawer => answer.inch \/ OnlyTheServerObjects(ask.inches)

-----------------------------------------------------------------------------
Questions ==
    \/ kind = "tax" /\ ask \in Baskets
    \/ kind = "modesty" /\ ask \in ModestyProfiles /\ Storable(ask)
    \/ kind = "faces" /\ \E a, b \in Detections : ask = [found |-> <<a, b>>]
    \/ kind = "blur" /\ ask \in Blurs
    \/ kind = "fit" /\ ask \in Drafts

RulesInit == answer = Unanswered /\ Questions

RulesNext ==
    /\ answer = Unanswered
    /\ QuoteTax \/ Assess \/ DetectFaces \/ Blur \/ CheckFit
    /\ UNCHANGED <<kind, ask>>

RulesSpec == RulesInit /\ [][RulesNext]_rulesVars
=============================================================================
