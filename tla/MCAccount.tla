----------------------------- MODULE MCAccount -----------------------------
(***************************************************************************)
(* What a customer's account holds: links and passwords, addresses, fit    *)
(* profiles, reviews.  The four share nothing, so a behaviour exercises    *)
(* one of them.                                                            *)
(***************************************************************************)
EXTENDS Naturals

CONSTANTS f1, f2, a1, a2, p1, p2, w1, w2,
    Forms, MaxChanges, MaxLogins, Addresses, Profiles, Writers, Sets, MaxRequests,
    u1, q1, q2, Users, Staff, Products, Orders, Buyer, Content, MaxReviews

\* Set 0 stands for a profile that is not there.
ASSUME SetsAssumption == 0 \notin Sets

ASSUME OrdersAssumption ==
    /\ Staff \subseteq Users /\ Orders \subseteq Nat \ {0}
    /\ Buyer \in [Orders -> Users] /\ Content \in [Orders -> SUBSET Products]

VARIABLES
    part, \* the part of the account this behaviour is about
    password, lastLogin, verified, links, forms, spent,
    book, edits,
    profiles, revisions, fittings, requests, held, overlapped, reborn,
    reviews, orders, posts, delivered, moved

Links == INSTANCE Credentials
Book  == INSTANCE AddressBook WITH writers <- edits
Fits  == INSTANCE FitProfiles WITH writers <- fittings
Posts == INSTANCE Reviews WITH writers <- posts

linksVars == <<password, lastLogin, verified, links, forms, spent>>
bookVars  == <<book, edits>>
fitsVars  == <<profiles, revisions, fittings, requests, held, overlapped, reborn>>
postsVars == <<reviews, orders, posts, delivered, moved>>
accountVars == <<part, linksVars, bookVars, fitsVars, postsVars>>

\* One customer orders one of the products.
BoughtByOne == [o \in Orders |-> u1]
OfOneProduct == [o \in Orders |-> {q1}]

AccountInit ==
    /\ part \in {"links", "book", "fits", "posts"}
    /\ Links!Init /\ Book!Init /\ Fits!Init /\ Posts!Init

LinksNext == /\ part = "links" /\ Links!Next
             /\ UNCHANGED <<part, bookVars, fitsVars, postsVars>>
BookNext  == /\ part = "book" /\ Book!Next
             /\ UNCHANGED <<part, linksVars, fitsVars, postsVars>>
FitsNext  == /\ part = "fits" /\ Fits!Next
             /\ UNCHANGED <<part, linksVars, bookVars, postsVars>>
PostsNext == /\ part = "posts" /\ Posts!Next
             /\ UNCHANGED <<part, linksVars, bookVars, fitsVars>>

AccountNext == LinksNext \/ BookNext \/ FitsNext \/ PostsNext

AccountSpec == AccountInit /\ [][AccountNext]_accountVars

\* The properties of the parts; each is explained where it is defined.
SpentLinksDead  == Links!SpentLinksDead
DefaultKept     == Book!DefaultKept
HistoryComplete == Fits!HistoryComplete
BadgeIsEarned   == Posts!BadgeIsEarned
=============================================================================
