------------------------------- MODULE MCAuth -------------------------------
(* One account, typed as it is stored or with a capital letter.            *)
EXTENDS Auth, TLC

CONSTANTS h1, h2,           \* handlers
          plain, capital    \* spellings of one address

MCHandlers == {h1, h2}
MCSpellings == {plain, capital}
MCLower == [s \in MCSpellings |-> plain]

=============================================================================
