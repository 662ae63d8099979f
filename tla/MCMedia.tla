------------------------------ MODULE MCMedia ------------------------------
(* The media pipeline on two photos of one product and two workers.        *)
EXTENDS MediaPipeline, TLC

CONSTANTS a1, a2, w1, w2

Both == {<<"faces", "faces">>, <<"plain", "faces">>, <<"poison", "unverifiable">>,
         <<"broken", "poison">>}
NewestFirst == <<a2, a1>>
MCPhotos == {(a1 :> p[1]) @@ (a2 :> p[2]) : p \in Both}
=============================================================================
