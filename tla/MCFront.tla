------------------------------ MODULE MCFront -------------------------------
(***************************************************************************)
(* Files for the front end to read: legal ones with every statement and    *)
(* declaration of the language, and flawed ones.                           *)
(***************************************************************************)
EXTENDS Front, Sequences

G == INSTANCE EsterelParser
MCRules == G!Grammar
MCStarts(es) == G!First(es)

LOCAL INSTANCE SequencesExt

Lines(ss) == FoldLeft(LAMBDA file, s : file \o s \o "\n", "", ss)

ABRO == Lines(<<
  "% the hello world of Esterel",
  "module ABRO:",
  "input A, B, R; output O;",
  "loop [ await A || await B ]; emit O each R",
  "end module">>)

Interface == Lines(<<
  "module m1:",
  "type T; constant N = 3 : integer, M = -2.5e1f : float, P, Q : T;",
  "function f(integer, T) : T, g() : boolean;",
  "procedure p(T)(integer), q()(); task t(T, T)();",
  "input I(integer), tock; inputoutput J : combine integer with +;",
  "output O := 1 : integer; return D; sensor S : T;",
  "relation I => J, tock # D # I;",
  "call p(P)(N); call q()()",
  "end module">>)

Nested == Lines(<<
  "module m2:", "input A, B; output O, X : integer;",
  "[ abort pause || pause when [A or B] ];",
  "weak abort sustain O when case 2 A do emit X(1) case immediate [not B and A] end weak abort;",
  "await case A do nothing case B end;",
  "await [A and (B or not A)]; await immediate A do emit O end await;",
  "present case A do emit O; case [A or B] else pause end;",
  "abort halt when 3 + ?X [A] do nothing end abort",
  "end module">>)

Scopes == Lines(<<
  "module m3:", "input S : integer; output O : integer;",
  "trap T := 1 : integer, U in",
  "  signal S := ?S + 1 : integer, V := ?S : integer in",
  "    [ var x := ?S, y : integer, b := false : boolean in",
  "        trap T := ??T : integer, W := ??T : integer in exit T(1); exit U end;",
  "        var x := x * (y - 1), z := x : integer in emit V(x + z); emit S end var;",
  "        b := (x < y + 1) and not (b or x = - (y)); exit T(x mod 2)",
  "      end || await S ]",
  "  end signal; emit S(4)",
  "handle T do emit O(??T + 1)",
  "handle U and not T do nothing",
  "end trap",
  "end module">>)

Choosing == Lines(<<
  "module m4:", "input A; output O; constant s : string;", "function h(string, integer) : boolean;",
  "if h(\"it is \"\"so\"\"\", 1) then emit O elsif s = \"\" then pause elsif true then halt else nothing end;",
  "present A then pause end; present [A] else loop pause end loop end;",
  "if h(s, 2) then [ pause || pause ]; emit O end;",
  "positive repeat 2 times suspend pause when immediate A end repeat;",
  "repeat 1 * (2 + 3) times pause end; every 2 A do emit O end every",
  "end module">>)

Older == Lines(<<
  "module m5:", "input A; output O; do sustain O upto A;",
  "do halt watching 2 A; do halt watching A timeout emit O end timeout;",
  "copymodule m6 [ signal A / B, O / C; type integer / T; constant -7 / N; function + / f ];",
  "run m7 / m8 .", "",
  "module m6: %{ a comment",
  "}% function f(integer) : integer; task t(integer)(integer); return D, E; procedure g()();",
  "var v : integer in",
  "  exec t(v)(v + 1) return D do pause end;",
  "  exec case t(v)(.5e+2) return D case t(v)(2) return E do halt end exec;",
  "  run m7 [ function f / f1, f / f2; procedure g / g1; task t / t1 ]",
  "end var",
  "end module">>)

(* Read without complaint: arguments and assignments are hardly checked.   *)
Odd == Lines(<<
  "module m9:", "type T; constant N : integer; procedure p(T)(T); function f(T) : T; output O : T;",
  "signal tock : combine T with f, S : combine integer with * in",
  "  N := 2; call p()(); call p(N)(true, 1); emit S; emit O;", "  abort emit S(1); when 2 S; present [S] end;",
  "end signal .">>)

(* An operator of each level in one of each, wherever brackets are printed *)
(* or are not needed.                                                      *)
Operators(body) ==
  Lines(<<"module m10:", "var x := 7 : integer, b := true : boolean, c : boolean in", body, "end end module">>)
Legibles == Operators(
  "b := b or c or b and c; b := (b or c) and (c or b) and not b; b := not b and c or x < 1;"
  \o "b := not (b and c) or not (x = 1) or not (b or c); b := (b or c) = b <> (b and c); b := b = c = (b or c);"
  \o "x := (x - 1 - x + 2) * (x + 1) / 3 * - x mod 3; x := - (x * 2) + - (x - 1) * - - x - x * x;"
  \o "b := - x - 1 <= x mod 2 and x * x > (x + 1) * x; b := x < 1 = (b and x >= 1)")
(* Those that lose brackets.                                               *)
Illegibles ==
  {Operators("b := (not b) = c; x := x - (x - 1); x := x / (x * 2); x := x mod (x mod 2)"),
   Operators("b := not (not b)")}

Late == Lines(<<
  "module n1:", "constant a : T; type T;", "nothing", "end module">>)

(* Modules that run modules; what they rename, share and add.              *)
Running == Lines(<<
  "module r1:", "type T; input S; output O; constant N = 3 : integer; return D;",
  "function g(integer) : boolean; task u()(integer), w()(integer); procedure p(T)();",
  "trap T in signal L, S2 : integer in",
  "    run r2 [ signal S / I, L / J ]; run r2 [ signal L / I; signal S / J; constant 4 / M ];",
  "    loop run again / r2 [ signal S / I, S / J; function g / f; task w / u; constant N / M ] end",
  "    || run r3 [ constant N / K; signal S2 / V, S / I ]; var N := 1 : integer in run r3 [ constant N / K; signal S2 / V, S / I ] end",
  "  end end",
  "end module", "",
  "module r2:", "input I, J; output O; type U; constant M = 7 : integer, d : U; function f(integer) : boolean;",
  "return D; task u()(integer); relation I # J;",
  "trap T in signal X, V : integer in",
  "  var x := M : integer in",
  "    [ every 2 I do emit X end || await 3 J; exit T ];",
  "    positive repeat M times if f(x) then await immediate J; emit O end end;",
  "    exec u()(x + M) return D;",
  "    run r3 [ constant -2 / K ]; run r3 [ constant M / K, d / c; type U / T ]",
  "  end end",
  "handle T do emit O end",
  "end module", "",
  "module r3: constant K : integer; type T; constant c : T; procedure q(T)(integer, T);",
  "input I; inputoutput V : integer;",
  "var y := c : T in trap T in signal W in call q(y)(K + ?V, c); emit V(K); await I; emit W; exit T end end end",
  "end module">>)
Pair(body, more) ==
  Lines(<<"module e1: input A; output O; return D;", body, "end module module e2: input A; return D;"
          \o "constant N : integer; task t()(integer); exec t()(N) return D; await 2 A", more>>)
Nearest == Pair("signal A in run e2 end", "; emit tick .")
(* Legal files whose runs have a flaw each: a cycle, a task entered twice, *)
(* formals and modules that are not there, an assignment to a constant.    *)
RunFlawed ==
  {Pair("run e2", "; run e1 ."), Pair("run e2; run e2", "."), Pair("run e2 [ signal A / B ]", "."),
   Pair("run e2 [ constant 1 / M ]", "."),
   Pair("run e3", "."), Pair("run e2 [ constant 1 / N ]", "; var x : integer in N := x end .")}

(* One flaw each: in the words, in the grammar, in the names, in the types.*)
In(body) == Lines(<<"module n:", "input A, I : integer; output O;", body, "end module">>)
Flawed ==
  {Late,
   In("emit O %{ for ever"), In("emit O | pause"), In("emit O(1.5e)"), In("emit O(\"a)"), "% no newline",
   In("emit"), In("emit A B"), In("await 2"), In("abort pause when case A do pause"), In("if A A then halt"),
   In("emit P"), In("x := 1"), In("exit T"), In("trap T in exit U end"), In("call p()()"),
   In("var x : T in nothing end"), In("signal S in nothing end; emit S"), In("await immediate 2 A"),
   In("trap T in nothing end; exit T"), In("var x : integer, x : boolean in nothing end"),
   In("present A then emit O(1) end"), In("if I then halt end"), In("emit I(true)"), In("await ?I = 1 A"),
   In("repeat 1.5 times pause end"), In("var x : integer in x := not x end"), In("exec t()() return A"),
   In("run m [ signal P / Q ]"), In("if ?A = 1 then halt end"), In("trap T : integer in exit T end"),
   In("var x := 1 : integer, y := x : integer in nothing end")}

Good == {ABRO, Interface, Nested, Scopes, Choosing, Older, Odd, Legibles, Running, Nearest}
AllTexts == Good \cup Flawed \cup RunFlawed
=============================================================================
