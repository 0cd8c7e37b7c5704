----------------------------- MODULE MCAccounts -----------------------------
(* A person's account (SignIn), and the repository of a person's app          *)
(* (Mirror), in two parts that share no state.  A behaviour follows one.      *)
EXTENDS SignIn, Mirror, TLC

CONSTANTS c1, c2, c3

\* Calls and requests share their names, so that one symmetry does for both.
MCCalls == {c1, c2, c3}
MCSymmetry == Permutations(MCCalls)

VARIABLE part

accountsVars == <<part, signInVars, mirrorVars>>

AccountsInit ==
    /\ part \in {"signIn", "mirror"}
    /\ SignInInit
    /\ MirrorInit
    \* Of the part that does not go one beginning will do.
    /\ part = "mirror" => ~required /\ ~mfa.on
    /\ part = "signIn" => branch = <<>>

OfSignIn == part = "signIn" /\ UNCHANGED <<part, mirrorVars>>
OfMirror == part = "mirror" /\ UNCHANGED <<part, signInVars>>

AccountsNext ==
    \/ OfSignIn /\ SignInNext
    \/ OfMirror /\ MirrorNext

AccountsSpec == AccountsInit /\ [][AccountsNext]_accountsVars
=============================================================================
