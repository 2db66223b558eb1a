------------------------- MODULE MCTokenVerification -------------------------
(* Tokens of one session and of a later one, signed with keys of different   *)
(* versions, and two that nobody should accept.                              *)
EXTENDS TokenVerification, TLC

CONSTANTS c1, c2, r1

Token(kid, authTime, iat, exp) ==
    [kid |-> kid, alg |-> "RS256", claimsOK |-> TRUE, signed |-> TRUE,
     authTime |-> authTime, iat |-> iat, exp |-> exp]

MCTokens ==
    {Token(1, 0, 0, 9),                                   \* an early session
     Token(2, 0, 1, 9),                                   \* it is refreshed
     [Token(1, 0, 0, 1) EXCEPT !.signed = FALSE],         \* forged
     [Token(NoKid, 0, 0, 9) EXCEPT !.alg = "none", !.signed = FALSE]}

MCMaxAges == {NoMaxAge, 2}

Symmetry == Permutations({c1, c2})
=============================================================================
