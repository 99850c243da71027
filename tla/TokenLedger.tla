---------------------------- MODULE TokenLedger ----------------------------
(***************************************************************************)
(* What the tables authorization_codes and refresh_tokens promise to who   *)
(* reads them, with no request, no handler and no timing: a book that only *)
(* grows.  Codes are issued and later used, tokens are issued against a    *)
(* code or an earlier token that has already been spent, and a token that  *)
(* has been revoked stays revoked.  OAuthTokens implements this book.      *)
(***************************************************************************)
CONSTANTS Users, Systems, Codes, Tokens, None

CodeEntries  == [user : Users, system : Systems, used : BOOLEAN]
TokenEntries == [user : Users, system : Systems, family : Tokens,
                 revoked : BOOLEAN]

\* What the theorems ask of the constants; OAuthRequirements assumes it of its own.
ConstantsDistinct ==
    /\ Codes \cap Tokens = {}
    /\ None \notin Codes \cup Tokens \cup CodeEntries \cup TokenEntries

VARIABLES
    codes,      \* the entry of each code, None while it is not issued
    tokens,     \* the entry of each refresh token
    origin      \* the code or token each token was issued for

lvars == <<codes, tokens, origin>>

Issued(i) == IF i \in Codes THEN codes[i] # None ELSE tokens[i] # None
Spent(i)  == IF i \in Codes THEN codes[i].used ELSE tokens[i].revoked
Owner(i)  == IF i \in Codes THEN <<codes[i].user, codes[i].system>>
                            ELSE <<tokens[i].user, tokens[i].system>>

Init ==
    /\ codes = [c \in Codes |-> None]
    /\ tokens = [t \in Tokens |-> None]
    /\ origin = [t \in Tokens |-> None]

IssueCode(c, u, s) ==
    /\ codes[c] = None
    /\ codes' = [codes EXCEPT ![c] = [user |-> u, system |-> s, used |-> FALSE]]
    /\ UNCHANGED <<tokens, origin>>

UseCode(c) ==
    /\ codes[c] # None
    /\ codes' = [codes EXCEPT ![c].used = TRUE]
    /\ UNCHANGED <<tokens, origin>>

\* A new token continues the family of the token it replaces; one issued for a
\* code starts a family of its own.
IssueToken(t, i) ==
    /\ tokens[t] = None
    /\ Issued(i) /\ Spent(i)
    /\ tokens' = [tokens EXCEPT ![t] =
                    [user |-> Owner(i)[1], system |-> Owner(i)[2],
                     family |-> IF i \in Codes THEN t ELSE tokens[i].family,
                     revoked |-> FALSE]]
    /\ origin' = [origin EXCEPT ![t] = i]
    /\ UNCHANGED codes

\* Rotation and logout revoke one token, reuse detection a whole set of them.
RevokeTokens(revoked) ==
    /\ tokens' = [t \in Tokens |->
                    IF t \in revoked /\ tokens[t] # None
                    THEN [tokens[t] EXCEPT !.revoked = TRUE]
                    ELSE tokens[t]]
    /\ UNCHANGED <<codes, origin>>

Next ==
    \/ \E c \in Codes, u \in Users, s \in Systems : IssueCode(c, u, s)
    \/ \E c \in Codes : UseCode(c)
    \/ \E t \in Tokens, i \in Codes \cup Tokens : IssueToken(t, i)
    \/ \E revoked \in SUBSET Tokens : RevokeTokens(revoked)

Spec == Init /\ [][Next]_lvars

-----------------------------------------------------------------------------

TypeOK ==
    /\ codes \in [Codes -> CodeEntries \cup {None}]
    /\ tokens \in [Tokens -> TokenEntries \cup {None}]
    /\ origin \in [Tokens -> Codes \cup Tokens \cup {None}]

IssuedTokens == {t \in Tokens : tokens[t] # None}

\* A token was issued for something that had been spent before.
ParentSpentFirst ==
    \A t \in IssuedTokens :
      /\ origin[t] \in Codes \cup Tokens
      /\ Issued(origin[t])
      /\ Spent(origin[t])

\* Every family has a root token, issued for a used code of the same owner.
Rooted(t) ==
    LET root == tokens[t].family IN
      /\ root \in IssuedTokens
      /\ tokens[root].family = root
      /\ origin[root] \in Codes
      /\ Issued(origin[root])
      /\ Spent(origin[root])
      /\ Owner(t) = Owner(origin[root])
LineageRooted == \A t \in IssuedTokens : Rooted(t)

\* No entry disappears, changes owner or family, or becomes usable again.
NothingComesBack ==
    [][/\ \A i \in Codes \cup Tokens :
            Issued(i) => /\ Issued(i)'
                         /\ Owner(i)' = Owner(i)
                         /\ Spent(i) => Spent(i)'
       /\ \A t \in IssuedTokens : /\ tokens'[t].family = tokens[t].family
                                  /\ origin'[t] = origin[t]]_lvars
=============================================================================
