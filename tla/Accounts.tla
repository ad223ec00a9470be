-------------------------------- MODULE Accounts --------------------------------
(***************************************************************************)
(* What registration, verification and login promise, whatever rows and    *)
(* requests are in between: an address has one owner for good, its account *)
(* is verified by a code that was sent to it and stays so, and a token is  *)
(* given for a verified account only, to a login with its owner's password *)
(* or a verification with a code of its address.                           *)
(*                                                                         *)
(* OtpAuth implements it with unchecked writes by id on a shared row.      *)
(***************************************************************************)
CONSTANTS Emails, Codes, NoUser,
          Clients, Owners, Verifiers, Logins

VARIABLES
    address, code, password,  \* what a client gives: see OtpAuth
    owner, verified,          \* of an address
    issued,                   \* the codes sent to it
    tokens                    \* the clients that were given one

given == <<address, code, password>>
vars == <<given, owner, verified, issued, tokens>>

Init == /\ address \in [Clients -> Emails]
        /\ code \in [Verifiers -> Codes]
        /\ password \in [Logins -> Owners]
        /\ owner = [e \in Emails |-> NoUser]
        /\ verified = [e \in Emails |-> FALSE]
        /\ issued = [e \in Emails |-> {}]
        /\ tokens = {}

Issue(e, c) == issued' = [issued EXCEPT ![e] = @ \cup {c}]

Register(p, c) == /\ owner[address[p]] = NoUser
                  /\ owner' = [owner EXCEPT ![address[p]] = p]
                  /\ Issue(address[p], c)
                  /\ UNCHANGED <<given, verified, tokens>>

Reissue(e, c) == /\ owner[e] # NoUser
                 /\ Issue(e, c)
                 /\ UNCHANGED <<given, owner, verified, tokens>>

HasCode(p) == p \in Verifiers /\ code[p] \in issued[address[p]]

Verify(p) == /\ HasCode(p)
             /\ owner[address[p]] # NoUser
             /\ verified' = [verified EXCEPT ![address[p]] = TRUE]
             /\ UNCHANGED <<given, owner, issued, tokens>>

HasPassword(p) == p \in Logins /\ password[p] = owner[address[p]]

Entitled(p) == verified[address[p]] /\ (HasCode(p) \/ HasPassword(p))

GiveToken(p) == /\ Entitled(p)
                /\ tokens' = tokens \cup {p}
                /\ UNCHANGED <<given, owner, verified, issued>>

Next == \/ \E p \in Owners, c \in Codes : Register(p, c)
        \/ \E e \in Emails, c \in Codes : Reissue(e, c)
        \/ \E p \in Verifiers : Verify(p)
        \/ \E p \in Clients : GiveToken(p)

Spec == Init /\ [][Next]_vars

--------------------------------------------------------------------------------
\* Whoever holds a token is entitled to one now, not only when it was given.
TokensEntitled == \A p \in tokens : Entitled(p)
================================================================================
