--------------------------- MODULE MCRegexParser ---------------------------
EXTENDS RegexParser

\* Two letters are enough to tell any two branches of a pattern apart.
MCChars    == {97, 98}
MCCharsets == {{97}, {}}

\* A sign, the zero and two other digits, the point and the exponent mark:
\* one code for every character class that INT and DOUBLE distinguish.
NumChars    == {45, 46, 48, 49, 69}
=============================================================================
