---------------------------- MODULE MCRotation ------------------------------
(***************************************************************************)
(* Instances of Rotation for TLC.  Tokens are short: MinimumTokenLength is *)
(* 2.                                                                      *)
(***************************************************************************)
EXTENDS Rotation

TwoPods == {"p1", "p2"}

\* Tokens with and without a line ending, a blank or a tab, and files that are
\* refused.
TokenFiles ==
    {<<"x", " ", "x">>, <<"x", "\t", "x">>, <<"x", "x", "x">>, <<"x", "x">>,
     <<"y", "y", "\n">>, <<"x", "y", "\r", "\n">>,
     <<"x">>, <<"x", "\n", "y">>, <<"x", "x", "\n", "\n">>}

=============================================================================
