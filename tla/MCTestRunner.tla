---------------------------- MODULE MCTestRunner -----------------------------
EXTENDS TestRunner

File(dirs, name, ext) ==
  [dirs |-> dirs, name |-> name, ext |-> ext, main |-> FALSE, tests |-> 1, golden |-> FALSE,
   broken |-> FALSE, cs |-> {"rt"}, outcome |-> "ok", expect |-> "ok", output |-> 1]

a     == File(<<"tests">>, <<"a">>, "mire")
ab    == File(<<"tests">>, <<"a", "b">>, "mire")
a_b   == [File(<<"tests", "a">>, <<"b">>, "mire") EXCEPT !.outcome = "marks", !.tests = 2]
amr   == [File(<<"tests">>, <<"a">>, "mr") EXCEPT !.outcome = "exit"]
script == [File(<<"tests">>, <<"s">>, "mire") EXCEPT !.main = TRUE, !.tests = 0, !.outcome = "exit", !.output = 2]
swept == [File(<<"lib">>, <<"p">>, "mire") EXCEPT !.main = TRUE, !.tests = 0, !.outcome = "exit"]
helper == [File(<<"lib">>, <<"q">>, "mire") EXCEPT !.tests = 0]
bad   == [File(<<"lib">>, <<"c">>, "mire") EXCEPT !.cs = {"rt", "bad"}]
golden == [File(<<"tests", "g">>, <<"program">>, "mire") EXCEPT
             !.main = TRUE, !.golden = TRUE, !.outcome = "exit", !.expect = "exit", !.tests = 0]
wrong == [File(<<"tests", "w">>, <<"program">>, "mire") EXCEPT
            !.main = TRUE, !.golden = TRUE, !.outcome = "ok", !.expect = "exit", !.tests = 0]
noisy == [File(<<"tests">>, <<"n">>, "mire") EXCEPT !.output = 3]
broken == [File(<<"tests">>, <<"x">>, "mire") EXCEPT !.broken = TRUE]

Dir(d) == [kind |-> "dir", dir |-> d, file |-> a]
Program(f) == [kind |-> "entry", dir |-> <<>>, file |-> f]
Named(f) == [kind |-> "file", dir |-> <<>>, file |-> f]
Test(files, roots) ==
  [files |-> files, roots |-> roots, configured |-> {<<"tests">>}, run |-> TRUE]
Tests == <<"tests">>

MCInvocations ==
  {Test(<<a, golden, script>>, <<Dir(Tests)>>),
   Test(<<a, broken, wrong>>, <<Dir(Tests)>>),
   Test(<<swept, helper, bad, a>>, <<Dir(<<"lib">>), Dir(Tests)>>),
   [Test(<<swept, a>>, <<Named(swept), Dir(Tests)>>) EXCEPT !.run = FALSE],
   Test(<<a, ab>>, <<Dir(Tests), Dir(Tests)>>),
   Test(<<a>>, <<Named(swept), Named(ab), Named(a), Named(a)>>),
   Test(<<ab, a_b, script>>, <<Dir(Tests)>>),
   Test(<<>>, <<Named(ab), Named(script), Named(a_b)>>),
   Test(<<a, amr, script>>, <<Dir(Tests)>>),
   Test(<<a>>, <<Dir(Tests), Program(swept)>>),
   Test(<<a>>, <<Named(a), Named(a), Named(a)>>),
   Test(<<noisy>>, <<Dir(Tests)>>)}
=============================================================================
