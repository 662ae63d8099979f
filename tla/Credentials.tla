---------------------------- MODULE Credentials ----------------------------
(***************************************************************************)
(* Links sent by e-mail, and what they change (apps/users/tokens.py,       *)
(* views.py and serializers.py): a link carries a fingerprint of the       *)
(* account as it was; it is taken while the account still has that         *)
(* fingerprint, and is used up because using it changes the fingerprint.   *)
(*                                                                         *)
(* A form is read against the account, and saved later from the copy that  *)
(* was read.  The customer has just registered.  Password hashes and times *)
(* are numbers: each one set is a new one.                                 *)
(***************************************************************************)
EXTENDS Naturals

CONSTANTS
    Forms,      \* submissions that can be under way at once
    MaxChanges, \* bound: passwords set
    MaxLogins   \* bound: sign-ins

VARIABLES
    password,  \* the password hash
    lastLogin, \* last_login
    verified,  \* email_verified_at; 0 is unverified
    links,     \* the links that were sent and have not expired
    forms,     \* what each form under way has read
    spent      \* history: links that were used

vars == <<password, lastLogin, verified, links, forms, spent>>

Idle == [kind |-> "idle"]

\* Mutant: the password is left out.
FingerprintWithoutPassword(kind, user) ==
    IF kind = "reset" THEN <<user.lastLogin>> ELSE <<user.verified>>

\* _password_state and _email_state.
Fingerprint(kind, user) ==
    IF kind = "reset" THEN <<user.password, user.lastLogin>> ELSE <<user.verified>>

User == [password |-> password, lastLogin |-> lastLogin, verified |-> verified]
Link(kind) == [kind |-> kind, state |-> Fingerprint(kind, User)]

Init ==
    /\ password = 1 /\ lastLogin = 0 /\ verified = 0
    /\ links = {Link("verify")}
    /\ forms = [f \in Forms |-> Idle]
    /\ spent = {}

Login ==
    /\ lastLogin < MaxLogins /\ lastLogin' = lastLogin + 1
    /\ UNCHANGED <<password, verified, links, forms, spent>>

\* A verification link is not sent again to a verified address.
Request(kind) ==
    /\ kind = "verify" => verified = 0
    /\ links' = links \cup {Link(kind)}
    /\ UNCHANGED <<password, lastLogin, verified, forms, spent>>

Expires(link) ==
    /\ links' = links \ {link}
    /\ UNCHANGED <<password, lastLogin, verified, forms, spent>>

\* read_password_reset_token and read_email_verification_token.
Opens(f, link) ==
    /\ forms[f] = Idle
    /\ Fingerprint(link.kind, User) = link.state
    /\ forms' = [forms EXCEPT ![f] = [kind |-> link.kind, link |-> link, user |-> User]]
    /\ UNCHANGED <<password, lastLogin, verified, links, spent>>

\* The current password was checked against the account read.
OpensChange(f) ==
    /\ forms[f] = Idle
    /\ forms' = [forms EXCEPT ![f] = [kind |-> "change", user |-> User]]
    /\ UNCHANGED <<password, lastLogin, verified, links, spent>>

NewPassword == password <= MaxChanges /\ password' = password + 1

\* update_fields: a reset writes back the email_verified_at it read, or sets it.
Saves(f) ==
    /\ \/ /\ forms[f].kind = "reset"
          /\ NewPassword
          /\ verified' = IF forms[f].user.verified = 0 THEN verified + 1
                         ELSE forms[f].user.verified
       \/ forms[f].kind = "change" /\ NewPassword /\ UNCHANGED verified
       \/ /\ forms[f].kind = "verify"
          /\ verified' = verified + 1 /\ UNCHANGED password
    /\ spent' = IF forms[f].kind = "change" THEN spent ELSE spent \cup {forms[f].link}
    /\ forms' = [forms EXCEPT ![f] = Idle]
    /\ UNCHANGED <<lastLogin, links>>

Next ==
    \/ Login
    \/ \E kind \in {"reset", "verify"} : Request(kind)
    \/ \E link \in links : Expires(link) \/ \E f \in Forms : Opens(f, link)
    \/ \E f \in Forms : OpensChange(f) \/ Saves(f)

Spec == Init /\ [][Next]_vars

-----------------------------------------------------------------------------
\* A link that was used never opens again, whatever sign-ins, changes and other
\* links come between, and although two forms may have opened it before either
\* was saved (tokens.py, "Single use").
SpentLinksDead == \A link \in spent : Fingerprint(link.kind, User) # link.state
=============================================================================
