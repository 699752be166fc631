------------------------------- MODULE MCShell -------------------------------
(***************************************************************************)
(* Shell for TLC: return values, and the sessions of each run.  There are  *)
(* slots enough for every process of a session, so that fork never fails.  *)
(***************************************************************************)
EXTENDS Shell

MCValue == {-1, 0, 1}

\* Lines on which && || ; & and | do what they should.
PlainLines ==
  {<<"w", "a", "w">>, <<"w", "o", "w">>, <<"w", ";", "w">>, <<"w", "&", "w">>,
   <<"w", "|", "w">>, <<"x", ";", "b">>, <<"w", "o", "w", "a", "w">>}

Job == <<"w", "&">>

\* Each plain line, and a background job with a line that acts on it.
MCSessions ==
  {<<l>> : l \in PlainLines} \cup {<<Job, <<"k">>>>, <<Job, <<"g">>>>}

\* One line with each way of waiting: a receive, a wait(), a condition.
LiveSessions ==
  {<<l>> : l \in {<<"w">>, <<"w", ";", "b">>, <<"w", "a", "w">>,
                  <<"b", "|", "w">>, <<"w", "&", "b">>}}

OneCommand  == {<<<<"w">>>>}
AndThenOr   == {<<<<"w", "a", "w", "o", "w">>>>}
OneJob      == {<<Job>>}
JobThenKill == {<<Job, <<"k">>>>}
=============================================================================
