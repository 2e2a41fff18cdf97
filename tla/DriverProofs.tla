---------------------------- MODULE DriverProofs ---------------------------
(***************************************************************************)
(* What the driver guarantees whatever the lexer, parser, compiler and     *)
(* engine do with a text: the three invariants of the driver's run, for    *)
(* every set of command lines, files and lines and any length of session.  *)
(***************************************************************************)
EXTENDS Driver, ListProofs, TLAPS

Stages == {"lex", "parse", "compile", "run"}

\* The text that run_source was called with.
Current == IF Repl THEN typed[Len(typed)].line ELSE Files[script]

\* The shape of the state, and what main and run_file leave alone.
Shape ==
  /\ phase \in Stages \cup {"main", "prompt", "exit"}
  /\ IsList(argv)
  /\ IsList(stdout) /\ IsList(stderr) /\ IsList(typed)
  /\ phase = "main" => stdout = <<>> /\ stderr = <<>> /\ typed = <<>>
  /\ phase = "prompt" => Repl
  /\ ~Repl => typed = <<>>
  /\ ~Repl /\ phase \in Stages => script \in DOMAIN Files /\ stdout = <<>> /\ stderr = <<>>

\* Each stage works on what the stages before it accepted of the current text.
Handover ==
  LET l == lexer_scan(Current)
      r == parser_parse(l.tokens)
  IN  /\ phase \in Stages => Current \in Texts /\ (Repl => typed # <<>> /\ Current # "")
      /\ phase = "lex" => work = Current
      /\ phase \in Stages \ {"lex"} => l.errors = <<>>
      /\ phase = "parse" => work = l.tokens
      /\ phase \in {"compile", "run"} => r.errors = <<>> /\ work = r.statements
      /\ phase = "compile" => engine = "bytecode"
      /\ phase = "run" /\ engine = "bytecode" => compiler_compile(work).errors = <<>>

\* How main and run_file exit: what is on stdout and stderr by then.
Exits ==
  Exited =>
    /\ code \in {64, 65, 66} => Diagnosed /\ stdout = <<>>
    /\ ~Repl => (code = 0 <=> ~Diagnosed)

\* Where in stdout the lines of a session were read, and what stands after each.
Session ==
  Repl =>
    /\ \A n \in DOMAIN typed : typed[n].at \in 1 .. Len(stdout) /\ typed[n].line \in Lines
    /\ phase \in Stages => typed # <<>> /\ typed[Len(typed)].at = Len(stdout)
    /\ Exited /\ typed # <<>> /\ ~Aborted =>
         /\ stdout[Len(stdout)] = <<"text", "newline">>
         /\ typed[Len(typed)].at <= Len(stdout) - 2
    /\ \A n \in DOMAIN typed :
         n < Len(typed) \/ phase = "prompt" \/ (Exited /\ ~Aborted) =>
           Shown(n) = Printed(Alone(typed[n].line))

IInv == Shape /\ Handover /\ Exits /\ Session

-----------------------------------------------------------------------------
\* What the program printed is a list of "out" pieces.
LEMMA PrintedIsList ==
  ASSUME NEW out, IsList(out)
  PROVE  IsList(Printed(out)) /\ Len(Printed(out)) = Len(out)
<1>1. Len(out) \in Nat
  BY DEF IsList
<1> QED
  BY <1>1 DEF IsList, Printed, Range

-----------------------------------------------------------------------------
(***************************************************************************)
(* The invariant.                                                          *)
(***************************************************************************)
\* Reporting errors leaves a diagnostic on stderr.
LEMMA Reported ==
  ASSUME IsList(stderr), NEW errors, IsList(errors), errors # <<>>, report(errors)
  PROVE  IsList(stderr') /\ Diagnosed'
<1> DEFINE E == [n \in 1 .. Len(errors) |-> <<"error", errors[n]>>]
<1>1. Len(errors) \in Nat \ {0}
  BY DEF IsList
<1>2. E \in Seq(Range(E)) /\ Len(E) = Len(errors)
  BY <1>1 DEF Range
<1>3. E[1][1] = "error"
  BY <1>1
<1>4. stderr' = stderr \o E
  BY DEF report
<1> HIDE DEF E
<1>5. IsList(E)
  BY <1>2 DEF IsList
<1>6. /\ IsList(stderr \o E)
      /\ DOMAIN (stderr \o E) = 1 .. Len(stderr) + Len(E)
      /\ \A i \in 1 .. Len(E) : (stderr \o E)[Len(stderr) + i] = E[i]
  BY <1>5, ListConcat
<1>7. Len(stderr) + 1 \in DOMAIN stderr'
  BY <1>1, <1>2, <1>4, <1>6, ListLength
<1>8. 1 \in 1 .. Len(E)
  BY <1>1, <1>2
<1> QED
  BY <1>3, <1>4, <1>6, <1>7, <1>8 DEF Diagnosed

\* Nothing has been read or written when main starts.
LEMMA InitIInv == Init => IInv
<1> SUFFICES ASSUME Init PROVE IInv
  OBVIOUS
<1>1. IsList(argv) /\ IsList(<<>>)
  BY CommandLinesAssumption, ListEmpty DEF Init
<1>2. Shape
  BY <1>1 DEF Init, Shape, Stages, Repl
<1>3. Handover
  BY DEF Init, Handover, Stages
<1>4. Exits
  BY DEF Init, Exits, Exited
<1>5. Session
  BY ListEmpty DEF Init, Session, Stages, Exited
<1> QED
  BY <1>2, <1>3, <1>4, <1>5 DEF IInv

\* As long as no line has been typed there is nothing to show for one.
LEMMA NoLines ==
  ASSUME typed' = <<>>, phase' \notin Stages
  PROVE  Session'
<1>1. DOMAIN typed' = {}
  BY ListEmpty
<1> QED
  BY <1>1 DEF Session, Stages

\* main's loop over the arguments.
LEMMA ArgumentsIInv ==
  ASSUME IInv, TakeEngine \/ TakeScript \/ Help \/ BadEngine \/ BadOption
  PROVE  IInv'
<1>1. phase = "main" /\ stdout = <<>> /\ stderr = <<>> /\ typed = <<>> /\ IsList(argv')
  BY TailIsList DEF IInv, Shape, TakeEngine, TakeScript, Help, BadEngine, BadOption, Arg
<1>2. typed' = <<>> /\ stdout' = <<>> /\ IsList(<<>>) /\ DOMAIN typed' = {}
  BY <1>1, ListEmpty DEF TakeEngine, TakeScript, Help, BadEngine, BadOption
<1>3. CASE TakeEngine \/ TakeScript
  BY <1>1, <1>2, <1>3 DEF TakeEngine, TakeScript, Arg, IInv, Shape, Handover, Exits, Session, Stages,
     Repl, Exited, Aborted, Diagnosed
<1>4. CASE Help
  <2>1. stderr' = Append(stderr, <<"text", "usage">>)
    BY <1>4 DEF Help
  <2>2. IsList(stderr') /\ Len(stderr') = 0 + 1 /\ stderr'[0 + 1] = <<"text", "usage">>
    BY <1>1, <2>1, ListAppend, ListEmpty
  <2>3. ~Diagnosed'
    BY <2>2, ListLength DEF Diagnosed
  <2>6. Shape'
    BY <1>1, <1>2, <1>4, <2>2, <2>3 DEF Help, Exit, Arg, IInv, Shape, Stages, Repl
  <2>7. Handover' /\ Session'
    BY <1>1, <1>2, <1>4, <2>2, <2>3, NoLines DEF Help, Exit, Handover, Stages
  <2>8. code' = 0
    BY <1>4 DEF Help, Exit
  <2>9. Exits'
    BY <2>3, <2>8 DEF Exits
  <2> QED
    BY <2>6, <2>7, <2>9 DEF IInv
<1>5. CASE BadEngine
  <2>1. report(<<"unknown engine">>) /\ <<"unknown engine">> # <<>> /\ IsList(stderr)
    BY <1>5 DEF BadEngine, IInv, Shape
  <2>2. IsList(stderr') /\ Diagnosed'
    BY <2>1, ListOfOne, Reported
  <2>3. Diagnosed'
    BY <2>2
  <2>6. Shape'
    BY <1>1, <1>2, <1>5, <2>2 DEF BadEngine, Exit, Arg, IInv, Shape, Stages, Repl
  <2>7. Handover' /\ Session'
    BY <1>1, <1>2, <1>5, <2>2, NoLines DEF BadEngine, Exit, Handover, Stages
  <2>8. code' = 64
    BY <1>5 DEF BadEngine, Exit
  <2>9. Exits'
    BY <1>2, <2>3, <2>8 DEF Exits
  <2> QED
    BY <2>6, <2>7, <2>9 DEF IInv
<1>6. CASE BadOption
  <2>1. stderr' = stderr \o << <<"error", "unknown option">>, <<"text", "usage">> >>
    BY <1>6 DEF BadOption
  <2> DEFINE both == << <<"error", "unknown option">>, <<"text", "usage">> >>
  <2>2. IsList(both) /\ Len(both) = 2 /\ both[1][1] = "error"
    BY ListOfTwo
  <2> HIDE DEF both
  <2>3. IsList(both) /\ IsList(stderr)
    BY <1>1, <2>2, ListEmpty
  <2>4. /\ IsList(stderr') /\ Len(stderr') = 0 + 2
        /\ \A i \in 1 .. 2 : stderr'[0 + i] = both[i]
    <3>1. /\ IsList(stderr \o both) /\ Len(stderr \o both) = Len(stderr) + Len(both)
          /\ \A i \in 1 .. Len(both) : (stderr \o both)[Len(stderr) + i] = both[i]
      BY <2>3, ListConcat
    <3>2. stderr' = stderr \o both /\ Len(stderr) = 0
      BY <1>1, <2>1, ListEmpty DEF both
    <3> QED
      BY <2>2, <3>1, <3>2
  <2>5. Diagnosed'
    BY <2>2, <2>4, ListLength DEF Diagnosed
  <2>6. Shape'
    BY <1>1, <1>2, <1>6, <2>4, <2>5 DEF BadOption, Exit, Arg, IInv, Shape, Stages, Repl
  <2>7. Handover' /\ Session'
    BY <1>1, <1>2, <1>6, <2>4, <2>5, NoLines DEF BadOption, Exit, Handover, Stages
  <2>8. code' = 64
    BY <1>6 DEF BadOption, Exit
  <2>9. Exits'
    BY <1>2, <2>5, <2>8 DEF Exits
  <2> QED
    BY <2>6, <2>7, <2>9 DEF IInv
<1> QED
  BY <1>3, <1>4, <1>5, <1>6

\* run_file and run_repl begin with nothing staged.
LEMMA StartIInv ==
  ASSUME IInv, StartRepl \/ OpenFile
  PROVE  IInv'
<1>1. phase = "main" /\ stdout = <<>> /\ stderr = <<>> /\ typed = <<>> /\ IsList(argv')
  BY DEF IInv, Shape, StartRepl, OpenFile
<1>2. typed' = <<>> /\ IsList(<<>>) /\ DOMAIN typed' = {}
  BY <1>1, ListEmpty DEF StartRepl, OpenFile
<1>3. CASE StartRepl
  <2>2. IsList(stdout')
    BY <1>1, <1>2, <1>3, ListAppend DEF StartRepl, Write
  <2> QED
    BY <1>1, <1>2, <1>3, <2>2 DEF StartRepl, IInv, Shape, Handover, Exits, Session, Stages,
       Repl, Exited, Aborted
<1>4. CASE OpenFile /\ script \in DOMAIN Files
  BY <1>1, <1>2, <1>4 DEF OpenFile, IInv, Shape, Handover, Exits, Session, Stages,
       Repl, Exited, Aborted, Current, Texts, Range
<1>5. CASE OpenFile /\ script \notin DOMAIN Files
  <2>1. report(<<"cannot open file">>) /\ <<"cannot open file">> # <<>> /\ IsList(stderr)
    BY <1>5 DEF OpenFile, IInv, Shape
  <2>2. IsList(stderr') /\ Diagnosed'
    BY <2>1, ListOfOne, Reported
  <2>3. Diagnosed'
    BY <2>2
  <2>6. Shape'
    BY <1>1, <1>2, <1>5, <2>2 DEF OpenFile, Exit, IInv, Shape, Stages, Repl
  <2>7. Handover' /\ Session'
    BY <1>1, <1>2, <1>5, <2>2, NoLines DEF OpenFile, Exit, Handover, Stages
  <2>8. code' = 66 /\ stdout' = stdout
    BY <1>5 DEF OpenFile, Exit
  <2>9. Exits'
    BY <1>1, <2>3, <2>8 DEF Exits
  <2> QED
    BY <2>6, <2>7, <2>9 DEF IInv
<1> QED
  BY <1>3, <1>4, <1>5

-----------------------------------------------------------------------------
(***************************************************************************)
(* Sessions.                                                               *)
(***************************************************************************)

\* What a text prints alone depends on the engine only.
LEMMA AloneStays == ASSUME engine' = engine, NEW text PROVE Alone(text)' = Alone(text)
BY DEF Alone

\* A program without output prints nothing.
LEMMA PrintedNothing == Printed(<<>>) = <<>>
BY ListEmpty DEF Printed

\* The lines before the last keep what is shown for them when more is written.
LEMMA EarlierLinesKept ==
  ASSUME IInv, Repl, UNCHANGED typed, engine' = engine, NEW t, IsList(t), stdout' = stdout \o t,
         NEW n \in DOMAIN typed, n < Len(typed)
  PROVE  Shown(n)' = Printed(Alone(typed[n].line))'
<1>1. /\ IsList(typed) /\ IsList(stdout)
      /\ \A k \in DOMAIN typed : typed[k].at \in 1 .. Len(stdout)
      /\ Shown(n) = Printed(Alone(typed[n].line))
  BY DEF IInv, Shape, Session
<1>2. n + 1 \in DOMAIN typed /\ n \in Nat /\ Len(typed) \in Nat /\ Len(stdout) \in Nat
  BY <1>1, ListLength
<1>3. typed[n].at + 1 \in Nat \ {0} /\ typed[n + 1].at - 1 \in Int /\ typed[n + 1].at - 1 <= Len(stdout)
  BY <1>1, <1>2
<1>4. SubSeq(stdout \o t, typed[n].at + 1, typed[n + 1].at - 1)
        = SubSeq(stdout, typed[n].at + 1, typed[n + 1].at - 1)
  BY <1>1, <1>3, SubSeqOfPrefix
<1>5. Shown(n)' = Shown(n)
  BY <1>4 DEF Shown
<1>6. Printed(Alone(typed[n].line))' = Printed(Alone(typed[n].line))
  BY AloneStays DEF Printed
<1> QED
  BY <1>1, <1>5, <1>6

\* run_source has come back to the prompt, the line having printed what it prints alone.
LEMMA AnswerShown ==
  ASSUME IInv, Repl, phase \in Stages, UNCHANGED <<engine, script, typed>>, phase' = "prompt",
         IsList(Alone(Current)), stdout' = stdout \o Printed(Alone(Current))
  PROVE  IsList(stdout') /\ Session'
<1> DEFINE out == Printed(Alone(Current))
<1>1. IsList(typed) /\ IsList(stdout) /\ typed # <<>> /\ typed[Len(typed)].at = Len(stdout)
  BY DEF IInv, Shape, Session
<1>2. IsList(out)
  BY PrintedIsList
<1>3. IsList(stdout \o out) /\ Len(stdout \o out) = Len(stdout) + Len(out)
  BY <1>1, <1>2, ListConcat
<1>4. Len(stdout) \in Nat /\ Len(out) \in Nat /\ Len(typed) \in Nat /\ DOMAIN typed = 1 .. Len(typed)
  BY <1>1, <1>2, ListLength
<1>5. SubSeq(stdout \o out, Len(stdout) + 1, Len(stdout) + Len(out)) = out
  BY <1>1, <1>2, SubSeqOfSuffix
<1>6. Alone(Current)' = Alone(Current)
  BY AloneStays DEF Current, Repl
<1> HIDE DEF out
<1>7. stdout' = stdout \o out
  BY DEF out
<1>8. Shown(Len(typed))' = SubSeq(stdout', Len(stdout) + 1, Len(stdout'))
  BY <1>1, <1>4 DEF Shown, Exited
<1>9. Shown(Len(typed))' = out
  BY <1>3, <1>5, <1>7, <1>8
<1>10. out = Printed(Alone(typed[Len(typed)].line))'
  <2>1. Current = typed[Len(typed)].line
    BY DEF Current
  <2>2. Alone(typed[Len(typed)].line)' = Alone(typed[Len(typed)].line)
    BY AloneStays
  <2> QED
    BY <2>1, <2>2 DEF out, Printed
<1>11. \A n \in DOMAIN typed : Shown(n)' = Printed(Alone(typed[n].line))'
  <2> SUFFICES ASSUME NEW n \in DOMAIN typed PROVE Shown(n)' = Printed(Alone(typed[n].line))'
    OBVIOUS
  <2>1. CASE n < Len(typed)
    BY <1>2, <1>7, <2>1, EarlierLinesKept
  <2>2. CASE n = Len(typed)
    BY <1>9, <1>10, <2>2
  <2> QED
    BY <1>4, <2>1, <2>2
<1>12. \A n \in DOMAIN typed : typed[n].at \in 1 .. Len(stdout') /\ typed[n].line \in Lines
  <2>1. \A n \in DOMAIN typed : typed[n].at \in 1 .. Len(stdout) /\ typed[n].line \in Lines
    BY DEF IInv, Session
  <2>2. Len(stdout') \in Nat /\ Len(stdout) <= Len(stdout')
    BY <1>3, <1>4, <1>7
  <2> QED
    BY <1>4, <2>1, <2>2
<1> QED
  BY <1>3, <1>7, <1>11, <1>12 DEF Session, Stages, Exited

\* At a prompt every line has its answer, up to the end of stdout.
LEMMA PromptAnswers ==
  ASSUME IInv, phase = "prompt", NEW t, IsList(t),
         NEW n \in DOMAIN typed
  PROVE  /\ n < Len(typed) =>
              SubSeq(stdout \o t, typed[n].at + 1, typed[n + 1].at - 1) = Printed(Alone(typed[n].line))
         /\ n = Len(typed) =>
              SubSeq(stdout \o t, typed[n].at + 1, Len(stdout)) = Printed(Alone(typed[n].line))
<1>1. /\ IsList(typed) /\ IsList(stdout) /\ Repl
      /\ \A k \in DOMAIN typed : typed[k].at \in 1 .. Len(stdout)
      /\ Shown(n) = Printed(Alone(typed[n].line))
  BY DEF IInv, Shape, Session
<1>2. n \in Nat /\ Len(typed) \in Nat /\ Len(stdout) \in Nat /\ DOMAIN typed = 1 .. Len(typed)
  BY <1>1, ListLength
<1>4. Printed(Alone(typed[n].line)) = Shown(n)
  BY <1>1
<1>5. typed[n].at + 1 \in Nat \ {0}
  BY <1>1, <1>2
<1>6. CASE n < Len(typed)
  <2>1. typed[n + 1].at - 1 \in Int /\ typed[n + 1].at - 1 <= Len(stdout)
    BY <1>1, <1>2, <1>6
  <2>2. SubSeq(stdout \o t, typed[n].at + 1, typed[n + 1].at - 1)
          = SubSeq(stdout, typed[n].at + 1, typed[n + 1].at - 1)
    BY <1>1, <1>5, <2>1, SubSeqOfPrefix
  <2>3. Shown(n) = SubSeq(stdout, typed[n].at + 1, typed[n + 1].at - 1)
    BY <1>6 DEF Shown
  <2>4. n # Len(typed)
    BY <1>2, <1>6
  <2> QED
    BY <1>4, <2>2, <2>3, <2>4
<1>7. CASE n = Len(typed)
  <2>1. Len(stdout) \in Int /\ Len(stdout) <= Len(stdout) /\ IsList(stdout)
    BY <1>1, <1>2
  <2>2. SubSeq(stdout \o t, typed[n].at + 1, Len(stdout)) = SubSeq(stdout, typed[n].at + 1, Len(stdout))
    BY <1>5, <2>1, SubSeqOfPrefix
  <2>3. Shown(n) = SubSeq(stdout, typed[n].at + 1, Len(stdout))
    <3>1. ~(n < Len(typed)) /\ ~Exited
      BY <1>2, <1>7 DEF Exited
    <3> QED
      BY <3>1, Zenon DEF Shown
  <2>4. ~(n < Len(typed))
    BY <1>2, <1>7
  <2> QED
    BY <1>4, <2>2, <2>3, <2>4
<1> QED
  BY <1>2, <1>6, <1>7

\* The end of the input leaves the REPL between two lines.
LEMMA EndOfInputIInv == ASSUME IInv, EndOfInput PROVE IInv'
<1> DEFINE end == << <<"text", "> ">>, <<"text", "newline">> >>
<1>1. IsList(end) /\ Len(end) = 2 /\ end[2] = <<"text", "newline">>
  BY ListOfTwo
<1>2. phase = "prompt" /\ Repl /\ IsList(stdout) /\ IsList(typed)
  BY DEF EndOfInput, IInv, Shape
<1>3. /\ IsList(stdout \o end) /\ Len(stdout \o end) = Len(stdout) + Len(end)
      /\ \A i \in 1 .. Len(end) : (stdout \o end)[Len(stdout) + i] = end[i]
  <2>1. IsList(end)
    BY <1>1
  <2> HIDE DEF end
  <2> QED
    BY <1>2, <2>1, ListConcat
<1>4. stdout' = stdout \o end
  BY DEF EndOfInput
<1> HIDE DEF end
<1>5. phase' = "exit" /\ code' = 0 /\ UNCHANGED <<argv, engine, script, typed, work, stderr>>
  BY DEF EndOfInput, Exit
<1>6. Len(stdout) \in Nat /\ Len(typed) \in Nat /\ DOMAIN typed = 1 .. Len(typed)
  BY <1>2, ListLength
<1>7. Len(stdout') = Len(stdout) + 2 /\ stdout'[Len(stdout) + 2] = <<"text", "newline">>
  BY <1>1, <1>3, <1>4
<1>8. Shape'
  BY <1>2, <1>3, <1>4, <1>5 DEF IInv, Shape, Repl
<1>9. Handover'
  BY <1>5 DEF Handover, Stages
<1>10. Exits'
  <2>1. Repl'
    BY <1>2, <1>5 DEF Repl
  <2> QED
    BY <1>5, <2>1 DEF Exits
<1>11. \A n \in DOMAIN typed : Shown(n)' = Printed(Alone(typed[n].line))'
  <2> SUFFICES ASSUME NEW n \in DOMAIN typed PROVE Shown(n)' = Printed(Alone(typed[n].line))'
    OBVIOUS
  <2>1. Printed(Alone(typed[n].line))' = Printed(Alone(typed[n].line))
    BY <1>5, AloneStays DEF Printed
  <2>2. /\ n < Len(typed) =>
             SubSeq(stdout \o end, typed[n].at + 1, typed[n + 1].at - 1) = Printed(Alone(typed[n].line))
        /\ n = Len(typed) =>
             SubSeq(stdout \o end, typed[n].at + 1, Len(stdout)) = Printed(Alone(typed[n].line))
    BY <1>1, <1>2, PromptAnswers
  <2>3. CASE n < Len(typed)
    BY <1>4, <1>5, <2>1, <2>2, <2>3 DEF Shown
  <2>4. CASE n = Len(typed)
    <3>1. Len(stdout') - 2 = Len(stdout)
      BY <1>6, <1>7
    <3> QED
      BY <1>4, <1>5, <1>6, <2>1, <2>2, <2>4, <3>1 DEF Shown, Exited
  <2> QED
    BY <1>6, <2>3, <2>4
<1>12. Session'
  <2>1. \A n \in DOMAIN typed : typed[n].at \in 1 .. Len(stdout) /\ typed[n].line \in Lines
    BY <1>2 DEF IInv, Session
  <2>2. \A n \in DOMAIN typed' : typed'[n].at \in 1 .. Len(stdout') /\ typed'[n].line \in Lines
    BY <1>5, <1>6, <1>7, <2>1
  <2>3. typed' # <<>> => typed'[Len(typed')].at <= Len(stdout') - 2
    BY <1>2, <1>5, <1>6, <1>7, <2>1, ListEmpty
  <2>4. stdout'[Len(stdout')] = <<"text", "newline">>
    BY <1>7
  <2> QED
    BY <1>5, <1>11, <2>2, <2>3, <2>4 DEF Session, Stages, Exited
<1> QED
  BY <1>8, <1>9, <1>10, <1>12 DEF IInv

\* A line that is read is handed to run_source alone.
LEMMA ReadLineIInv == ASSUME IInv, NEW line \in Lines, ReadLine(line) PROVE IInv'
<1> DEFINE prompt == << <<"text", "> ">> >>
           entry == [line |-> line, at |-> Len(stdout')]
<1>1. phase = "prompt" /\ Repl /\ IsList(stdout) /\ IsList(typed)
  BY DEF ReadLine, IInv, Shape
<1>2. stdout' = Append(stdout, <<"text", "> ">>) /\ typed' = Append(typed, entry)
  BY DEF ReadLine, Write
<1>3. UNCHANGED <<argv, engine, script, stderr, code>>
  BY DEF ReadLine
<1>4. IsList(prompt)
  BY ListOfOne
<1>5. IsList(stdout') /\ Len(stdout') = Len(stdout) + 1 /\ stdout' = stdout \o prompt
  BY <1>1, <1>2, ListAppend
<1>6. entry.line = line /\ entry.at = Len(stdout')
  OBVIOUS
<1> HIDE DEF entry, prompt
<1>7. /\ IsList(typed') /\ Len(typed') = Len(typed) + 1
      /\ typed'[Len(typed) + 1] = entry
      /\ \A n \in 1 .. Len(typed) : typed'[n] = typed[n]
  BY <1>1, <1>2, ListAppend
<1>8. /\ Len(stdout) \in Nat /\ Len(typed) \in Nat
      /\ DOMAIN typed = 1 .. Len(typed) /\ DOMAIN typed' = 1 .. Len(typed) + 1
  BY <1>1, <1>7, ListLength
<1>9. phase' = IF line = "" THEN "prompt" ELSE "lex"
  BY <1>1 DEF ReadLine, Answer
<1>10. Repl' /\ Current' = line
  BY <1>1, <1>3, <1>6, <1>7 DEF Repl, Current
<1>11. typed' # <<>>
  BY <1>7, <1>8, ListEmpty
<1>12. Shape'
  BY <1>1, <1>3, <1>5, <1>7, <1>9, <1>10 DEF IInv, Shape, Stages
<1>13. Handover'
  <2>1. CASE line = ""
    BY <1>9, <2>1 DEF Handover, Stages
  <2>2. CASE line # ""
    <3>1. work' = line
      BY <2>2 DEF ReadLine, Answer
    <3> QED
      BY <1>9, <1>10, <1>11, <2>2, <3>1 DEF Handover, Stages, Texts
  <2> QED
    BY <2>1, <2>2
<1>14. Exits'
  BY <1>9 DEF Exits, Exited
<1>15. \A n \in DOMAIN typed : Shown(n)' = Printed(Alone(typed[n].line))'
  <2> SUFFICES ASSUME NEW n \in DOMAIN typed PROVE Shown(n)' = Printed(Alone(typed[n].line))'
    OBVIOUS
  <2>1. Printed(Alone(typed[n].line))' = Printed(Alone(typed[n].line))
    <3>1. typed'[n] = typed[n]
      BY <1>7, <1>8
    <3> QED
      BY <1>3, <3>1 DEF Alone, Printed
  <2>2. /\ n < Len(typed) =>
             SubSeq(stdout \o prompt, typed[n].at + 1, typed[n + 1].at - 1) = Printed(Alone(typed[n].line))
        /\ n = Len(typed) =>
             SubSeq(stdout \o prompt, typed[n].at + 1, Len(stdout)) = Printed(Alone(typed[n].line))
    BY <1>1, <1>4, PromptAnswers
  <2>3. Shown(n)' = SubSeq(stdout \o prompt, typed[n].at + 1, typed'[n + 1].at - 1)
    <3>1. n < Len(typed') /\ typed'[n] = typed[n] /\ stdout' = stdout \o prompt
      BY <1>5, <1>7, <1>8
    <3> QED
      BY <3>1, Zenon DEF Shown
  <2>4. CASE n < Len(typed)
    <3>1. typed'[n + 1] = typed[n + 1]
      BY <1>7, <1>8, <2>4
    <3> QED
      BY <2>1, <2>2, <2>3, <2>4, <3>1
  <2>5. CASE n = Len(typed)
    <3>1. typed'[n + 1].at - 1 = Len(stdout)
      BY <1>5, <1>6, <1>7, <1>8, <2>5
    <3> QED
      BY <2>1, <2>2, <2>3, <2>5, <3>1
  <2> QED
    BY <1>8, <2>4, <2>5
<1>16. ASSUME NEW n \in Nat, n = Len(typed) + 1, line = ""
       PROVE  Shown(n)' = Printed(Alone(line))'
  <2>1. Shown(n)' = SubSeq(stdout', Len(stdout') + 1, Len(stdout'))
    <3>4. Len(typed') = Len(typed) + 1 /\ Len(typed) \in Nat
      BY <1>7, <1>8
    <3>0. n = Len(typed) + 1
      BY <1>16
    <3>1. ~(n < Len(typed'))
      BY <3>0, <3>4
    <3>2. ~Exited'
      BY <1>9, <1>16 DEF Exited
    <3>3. typed'[n].at = Len(stdout')
      BY <1>6, <1>7, <1>16
    <3> QED
      BY <3>1, <3>2, <3>3, Zenon DEF Shown
  <2>2. SubSeq(stdout', Len(stdout') + 1, Len(stdout')) = <<>>
    <3>1. stdout' \in Seq(Range(stdout')) /\ Len(stdout') \in Nat
      BY <1>5, <1>8 DEF IsList
    <3> QED
      BY <3>1
  <2>3. Printed(Alone(line))' = <<>>
    BY <1>16, PrintedNothing DEF Alone, Printed
  <2> QED
    BY <2>1, <2>2, <2>3
<1>17. \A n \in DOMAIN typed' : typed'[n].at \in 1 .. Len(stdout') /\ typed'[n].line \in Lines
  <2>1. \A n \in DOMAIN typed : typed[n].at \in 1 .. Len(stdout) /\ typed[n].line \in Lines
    BY <1>1 DEF IInv, Session
  <2>2. ASSUME NEW n \in DOMAIN typed'
        PROVE  typed'[n].at \in 1 .. Len(stdout') /\ typed'[n].line \in Lines
    <3>1. CASE n \in DOMAIN typed
      BY <1>5, <1>7, <1>8, <2>1, <3>1
    <3>2. CASE n = Len(typed) + 1
      BY <1>5, <1>6, <1>7, <1>8, <3>2
    <3> QED
      BY <1>8, <3>1, <3>2
  <2> QED
    BY <2>2
<1>18. \A n \in DOMAIN typed' : n < Len(typed') \/ phase' = "prompt" =>
         Shown(n)' = Printed(Alone(typed[n].line))'
  <2> SUFFICES ASSUME NEW n \in DOMAIN typed', n < Len(typed') \/ phase' = "prompt"
               PROVE  Shown(n)' = Printed(Alone(typed[n].line))'
    OBVIOUS
  <2>1. CASE n \in DOMAIN typed
    BY <1>15, <2>1
  <2>2. CASE n = Len(typed) + 1
    <3>0. ~(n < Len(typed'))
      BY <1>7, <1>8, <2>2
    <3>1. line = ""
      BY <1>9, <3>0
    <3>2. typed'[n].line = line
      BY <1>6, <1>7, <2>2
    <3>3. Printed(Alone(typed[n].line))' = Printed(Alone(line))'
      BY <3>2 DEF Alone, Printed
    <3>4. n \in Nat
      BY <1>8, <2>2
    <3>5. Shown(n)' = Printed(Alone(line))'
      BY <1>16, <2>2, <3>1, <3>4
    <3> QED
      BY <3>3, <3>5
  <2> QED
    BY <1>8, <2>1, <2>2
<1>19. Session'
  <2>1. phase' \in Stages => typed'[Len(typed')].at = Len(stdout')
    BY <1>6, <1>7
  <2> QED
    BY <1>9, <1>11, <1>17, <1>18, <2>1 DEF Session, Exited
<1> QED
  BY <1>12, <1>13, <1>14, <1>19 DEF IInv

-----------------------------------------------------------------------------
(***************************************************************************)
(* run_source.                                                             *)
(***************************************************************************)

\* What the stages return for the current text, as far as they are reached.
LEMMA StagesReturn ==
  ASSUME IInv, phase \in Stages
  PROVE  /\ Current \in Texts
         /\ IsList(lexer_scan(Current).errors)
         /\ lexer_scan(Current).errors = <<>> =>
              /\ IsList(parser_parse(lexer_scan(Current).tokens).errors)
              /\ parser_parse(lexer_scan(Current).tokens).errors = <<>> =>
                   LET tree == parser_parse(lexer_scan(Current).tokens).statements
                   IN  IsList(compiler_compile(tree).errors) /\ IsList(engine_run(tree).out)
BY StagesAssumption DEF IInv, Handover

\* The text is handed on to the next stage.
LEMMA AcceptedIInv ==
  ASSUME IInv, phase \in Stages, phase' \in Stages, Handover',
         UNCHANGED <<argv, engine, script, typed, stdout, stderr, code>>
  PROVE  IInv'
<1>1. Shape'
  BY DEF IInv, Shape, Repl, Stages
<1>2. Exits'
  BY DEF Exits, Exited, Stages
<1>3. Session'
  <2>1. Repl => \A n \in DOMAIN typed : n < Len(typed) => Shown(n)' = Printed(Alone(typed[n].line))'
    <3> SUFFICES ASSUME NEW n \in DOMAIN typed, n < Len(typed), Session, Repl
                 PROVE  Shown(n)' = Printed(Alone(typed[n].line))'
      BY DEF IInv
    <3>1. Shown(n)' = Shown(n)
      BY Zenon DEF Shown
    <3>2. Printed(Alone(typed[n].line))' = Printed(Alone(typed[n].line))
      BY DEF Alone, Printed
    <3> QED
      BY <3>1, <3>2 DEF Session
  <2> QED
    BY <2>1 DEF IInv, Session, Repl, Exited, Stages
<1> QED
  BY <1>1, <1>2, <1>3 DEF IInv

\* run_source returns 65 after reporting what a stage rejects.
LEMMA RejectedIInv ==
  ASSUME IInv, phase \in Stages, NEW errors, IsList(errors), errors # <<>>, Alone(Current) = <<>>,
         report(errors), Returned(65), StageUnchanged
  PROVE  IInv'
<1>1. IsList(stderr) /\ IsList(stdout)
  BY DEF IInv, Shape
<1>2. IsList(stderr')
  BY <1>1, Reported
<1>3. Diagnosed'
  BY <1>1, Reported
<1>4. CASE Repl
  <2>1. phase' = "prompt" /\ UNCHANGED <<argv, engine, script, typed, stdout>>
    BY <1>4 DEF Returned, StageUnchanged
  <2>2. stdout = stdout \o Printed(Alone(Current))
    BY <1>1, PrintedNothing DEF IsList
  <2>3. IsList(Alone(Current))
    BY ListEmpty
  <2>4. Session'
    BY <1>4, <2>1, <2>2, <2>3, AnswerShown
  <2>5. Shape'
    BY <1>2, <1>4, <2>1 DEF IInv, Shape, Repl
  <2>6. Handover' /\ Exits'
    BY <2>1 DEF Handover, Exits, Exited, Stages
  <2> QED
    BY <2>4, <2>5, <2>6 DEF IInv
<1>5. CASE ~Repl
  <2>1. phase' = "exit" /\ code' = 65 /\ UNCHANGED <<argv, engine, script, typed, stdout>>
    BY <1>5 DEF Returned, Exit, StageUnchanged
  <2>2. stdout' = <<>> /\ typed' = <<>>
    BY <1>5, <2>1 DEF IInv, Shape
  <2>3. Shape'
    BY <1>2, <1>5, <2>1 DEF IInv, Shape, Repl, Stages
  <2>4. Handover' /\ Session'
    BY <2>1, <2>2, NoLines DEF Handover, Stages
  <2>5. Exits'
    BY <1>3, <2>1, <2>2 DEF Exits
  <2> QED
    BY <2>3, <2>4, <2>5 DEF IInv
<1> QED
  BY <1>4, <1>5

\* The lexer of run_source accepts its text or ends it with 65.
LEMMA LexIInv == ASSUME IInv, Lex PROVE IInv'
<1> DEFINE l == lexer_scan(Current)
<1>1. phase = "lex" /\ phase \in Stages /\ work = Current
  BY DEF Lex, IInv, Handover, Stages
<1>2. Staged(l.errors, l.tokens, "parse") /\ StageUnchanged
  BY <1>1 DEF Lex, Lexed
<1>3. IsList(l.errors)
  BY <1>1, StagesReturn
<1>4. CASE l.errors # <<>>
  <2>1. Alone(Current) = <<>>
    BY <1>4 DEF Alone
  <2>2. report(l.errors) /\ Returned(65)
    BY <1>2, <1>4 DEF Staged
  <2> QED
    BY <1>1, <1>2, <1>3, <1>4, <2>1, <2>2, RejectedIInv
<1>5. CASE l.errors = <<>>
  <2>1. phase' = "parse" /\ work' = l.tokens /\ UNCHANGED <<argv, engine, script, typed, stdout, stderr, code>>
    BY <1>2, <1>5 DEF Staged, StageUnchanged
  <2>2. Current' = Current /\ Repl' = Repl
    BY <2>1 DEF Current, Repl
  <2>3. Handover'
    BY <1>1, <1>5, <2>1, <2>2 DEF IInv, Handover, Stages
  <2> QED
    BY <1>1, <2>1, <2>3, AcceptedIInv DEF Stages
<1> QED
  BY <1>4, <1>5

\* So does the parser.
LEMMA ParseIInv == ASSUME IInv, Parse PROVE IInv'
<1> DEFINE l == lexer_scan(Current)
           r == parser_parse(l.tokens)
           next == IF engine = "bytecode" THEN "compile" ELSE "run"
<1>1. phase = "parse" /\ phase \in Stages /\ l.errors = <<>> /\ work = l.tokens
  BY DEF Parse, IInv, Handover, Stages
<1>2. Staged(r.errors, r.statements, next) /\ StageUnchanged
  BY <1>1 DEF Parse, Parsed
<1>3. IsList(r.errors)
  BY <1>1, StagesReturn
<1>4. CASE r.errors # <<>>
  <2>1. Alone(Current) = <<>>
    BY <1>4 DEF Alone
  <2>2. report(r.errors) /\ Returned(65)
    BY <1>2, <1>4 DEF Staged
  <2> QED
    BY <1>1, <1>2, <1>3, <1>4, <2>1, <2>2, RejectedIInv
<1>5. CASE r.errors = <<>>
  <2>1. phase' = next /\ work' = r.statements /\ UNCHANGED <<argv, engine, script, typed, stdout, stderr, code>>
    BY <1>2, <1>5 DEF Staged, StageUnchanged
  <2>2. Current' = Current /\ Repl' = Repl
    BY <2>1 DEF Current, Repl
  <2>3. Handover'
    BY <1>1, <1>5, <2>1, <2>2 DEF IInv, Handover, Stages
  <2> QED
    BY <1>1, <2>1, <2>3, AcceptedIInv DEF Stages
<1> QED
  BY <1>4, <1>5

\* So does the compiler, under the bytecode engine.
LEMMA CompileIInv == ASSUME IInv, Compile PROVE IInv'
<1> DEFINE l == lexer_scan(Current)
           r == parser_parse(l.tokens)
           c == compiler_compile(r.statements)
<1>1. /\ phase = "compile" /\ phase \in Stages
      /\ l.errors = <<>> /\ r.errors = <<>> /\ work = r.statements /\ engine = "bytecode"
  BY DEF Compile, IInv, Handover, Stages
<1>2. Staged(c.errors, work, "run") /\ StageUnchanged
  BY <1>1 DEF Compile, Compiled
<1>3. IsList(c.errors)
  BY <1>1, StagesReturn
<1>4. CASE c.errors # <<>>
  <2>1. Alone(Current) = <<>>
    BY <1>1, <1>4 DEF Alone
  <2>2. report(c.errors) /\ Returned(65)
    BY <1>2, <1>4 DEF Staged
  <2> QED
    BY <1>1, <1>2, <1>3, <1>4, <2>1, <2>2, RejectedIInv
<1>5. CASE c.errors = <<>>
  <2>1. phase' = "run" /\ work' = work /\ UNCHANGED <<argv, engine, script, typed, stdout, stderr, code>>
    BY <1>2, <1>5 DEF Staged, StageUnchanged
  <2>2. Current' = Current /\ Repl' = Repl
    BY <2>1 DEF Current, Repl
  <2>3. Handover'
    BY <1>1, <1>5, <2>1, <2>2 DEF IInv, Handover, Stages
  <2> QED
    BY <1>1, <2>1, <2>3, AcceptedIInv DEF Stages
<1> QED
  BY <1>4, <1>5

\* The engine has returned and what it printed has been written; c is what run_source
\* returns, 0 exactly when nothing was reported.
LEMMA RanIInv ==
  ASSUME IInv, phase = "run", NEW out, IsList(out), Repl => Alone(Current) = out,
         stdout' = stdout \o Printed(out), IsList(stderr'),
         NEW c \in {0, 70}, ~Repl => (c = 0 <=> ~Diagnosed'), Returned(c),
         UNCHANGED <<argv, engine, script, typed>>
  PROVE  IInv'
<1>1. phase \in Stages /\ IsList(stdout) /\ IsList(Printed(out))
  BY PrintedIsList DEF IInv, Shape, Stages
<1>2. CASE Repl
  <2>1. phase' = "prompt"
    BY <1>2 DEF Returned
  <2>2. IsList(stdout') /\ Session'
    BY <1>1, <1>2, <2>1, AnswerShown
  <2>3. Shape'
    BY <1>2, <2>1, <2>2 DEF IInv, Shape, Repl
  <2>4. Handover' /\ Exits'
    BY <2>1 DEF Handover, Exits, Exited, Stages
  <2> QED
    BY <2>2, <2>3, <2>4 DEF IInv
<1>3. CASE ~Repl
  <2>1. phase' = "exit" /\ code' = c
    BY <1>3 DEF Returned, Exit
  <2>2. typed' = <<>>
    BY <1>3 DEF IInv, Shape
  <2>3. IsList(stdout \o Printed(out))
    BY <1>1, ListConcat
  <2>4. Shape'
    BY <1>3, <2>1, <2>2, <2>3 DEF IInv, Shape, Repl, Stages
  <2>5. Handover' /\ Session'
    BY <2>1, <2>2, NoLines DEF Handover, Stages
  <2>6. Exits'
    <3>1. code' \notin {64, 65, 66} /\ (code' = 0 <=> ~Diagnosed')
      BY <1>3, <2>1
    <3> QED
      BY <3>1 DEF Exits
  <2> QED
    BY <2>4, <2>5, <2>6 DEF IInv
<1> QED
  BY <1>2, <1>3

\* A ReturnSignal terminates the process.
LEMMA TerminatedIInv ==
  ASSUME IInv, phase = "run", report(<<"terminate">>), Exit(134), UNCHANGED <<stdout, argv, engine, script, typed>>
  PROVE  IInv'
<1>1. IsList(stderr) /\ IsList(stdout) /\ IsList(typed)
  BY DEF IInv, Shape
<1>2. <<"terminate">> # <<>> /\ IsList(<<"terminate">>)
  BY ListOfOne
<1>3. IsList(stderr')
  BY <1>1, <1>2, Reported
<1>4. Diagnosed'
  BY <1>1, <1>2, Reported
<1>5. phase' = "exit" /\ code' = 134
  BY DEF Exit
<1>6. Shape'
  BY <1>3, <1>5 DEF IInv, Shape, Repl, Stages
<1>7. Handover'
  BY <1>5 DEF Handover, Stages
<1>8. Exits'
  BY <1>4, <1>5 DEF Exits
<1>9. Session'
  <2>1. Aborted'
    BY <1>5 DEF Aborted, Exited
  <2>2. stdout' = stdout \o <<>>
    BY <1>1 DEF IsList
  <2>3. Repl => \A n \in DOMAIN typed : n < Len(typed) => Shown(n)' = Printed(Alone(typed[n].line))'
    BY <2>2, ListEmpty, EarlierLinesKept
  <2>4. Repl => \A n \in DOMAIN typed : typed[n].at \in 1 .. Len(stdout) /\ typed[n].line \in Lines
    BY DEF IInv, Session
  <2> QED
    BY <1>5, <2>1, <2>3, <2>4 DEF Session, Stages, Repl
<1> QED
  BY <1>6, <1>7, <1>8, <1>9 DEF IInv

\* The engine prints and run_source returns.
LEMMA RunIInv == ASSUME IInv, Run PROVE IInv'
<1> DEFINE l == lexer_scan(Current)
           r == parser_parse(l.tokens)
           end == engine_run(r.statements)
<1>1. /\ phase = "run" /\ phase \in Stages
      /\ l.errors = <<>> /\ r.errors = <<>> /\ work = r.statements
      /\ Repl => Current # ""
      /\ engine = "bytecode" => compiler_compile(r.statements).errors = <<>>
  BY DEF Run, IInv, Handover, Stages
<1>2. Ran(end) /\ UNCHANGED <<argv, engine, script, typed>>
  BY <1>1 DEF Run
<1>3. IsList(end.out)
  BY <1>1, StagesReturn
<1>4. Repl => Alone(Current) = end.out
  BY <1>1 DEF Alone
<1>5. IsList(stderr)
  BY DEF IInv, Shape
<1>6. CASE end.signal = "return"
  BY <1>1, <1>2, <1>6, TerminatedIInv DEF Ran
<1>7. CASE end.signal # "return" /\ end.signal = "error"
  <2>1. stdout' = stdout \o Printed(end.out) /\ report(<<end.message>>) /\ Returned(70)
    BY <1>2, <1>7 DEF Ran
  <2>2. IsList(<<end.message>>) /\ <<end.message>> # <<>>
    BY ListOfOne
  <2>3. IsList(stderr')
    BY <1>5, <2>1, <2>2, Reported
  <2>4. Diagnosed'
    BY <1>5, <2>1, <2>2, Reported
  <2>5. 70 = 0 <=> ~Diagnosed'
    BY <2>4
  <2> QED
    BY <1>1, <1>2, <1>3, <1>4, <2>1, <2>3, <2>5, RanIInv
<1>8. CASE end.signal # "return" /\ end.signal # "error"
  <2>1. stdout' = stdout \o Printed(end.out) /\ UNCHANGED stderr /\ Returned(0)
    BY <1>2, <1>8 DEF Ran
  <2>2. ~Repl => ~Diagnosed'
    <3> SUFFICES ASSUME ~Repl PROVE ~Diagnosed'
      OBVIOUS
    <3>1. stderr' = <<>>
      BY <1>1, <2>1 DEF IInv, Shape
    <3> QED
      BY <3>1, ListEmpty DEF Diagnosed
  <2>3. ~Repl => (0 = 0 <=> ~Diagnosed')
    BY <2>2
  <2> QED
    BY <1>1, <1>2, <1>3, <1>4, <1>5, <2>1, <2>3, RanIInv
<1> QED
  BY <1>6, <1>7, <1>8

-----------------------------------------------------------------------------
(***************************************************************************)
(* The theorems.                                                           *)
(***************************************************************************)

\* The invariant holds at every step of the driver.
THEOREM DriverIInv == Spec => []IInv
<1>1. Init => IInv
  BY InitIInv
<1>2. IInv /\ [Next]_vars => IInv'
  <2> SUFFICES ASSUME IInv, [Next]_vars PROVE IInv'
    OBVIOUS
  <2>1. CASE TakeEngine \/ TakeScript \/ Help \/ BadEngine \/ BadOption
    BY <2>1, ArgumentsIInv
  <2>2. CASE StartRepl \/ OpenFile
    BY <2>2, StartIInv
  <2>3. CASE \E line \in Lines : ReadLine(line)
    BY <2>3, ReadLineIInv
  <2>4. CASE EndOfInput
    BY <2>4, EndOfInputIInv
  <2>5. CASE Lex
    BY <2>5, LexIInv
  <2>6. CASE Parse
    BY <2>6, ParseIInv
  <2>7. CASE Compile
    BY <2>7, CompileIInv
  <2>8. CASE Run
    BY <2>8, RunIInv
  <2>9. CASE UNCHANGED vars
    <3>1. UNCHANGED <<argv, engine, script, typed, phase, work, stdout, stderr, code>>
      BY <2>9 DEF vars
    <3>2. Shape' /\ Handover' /\ Exits'
      BY <3>1 DEF IInv, Shape, Handover, Exits, Current, Repl, Exited, Diagnosed
    <3>3. \A n : Shown(n)' = Shown(n)
      BY <3>1 DEF Shown, Exited
    <3>4. \A n : Printed(Alone(typed[n].line))' = Printed(Alone(typed[n].line))
      BY <3>1 DEF Alone, Printed
    <3>5. Session'
      BY <3>1, <3>3, <3>4 DEF IInv, Session, Repl, Exited, Aborted
    <3> QED
      BY <3>2, <3>5 DEF IInv
  <2> QED
    BY <2>1, <2>2, <2>3, <2>4, <2>5, <2>6, <2>7, <2>8, <2>9 DEF Next
<1> QED
  BY <1>1, <1>2, PTL DEF Spec

\* Whatever the stages are, a text that one of them rejects, like bad arguments or a
\* file that cannot be opened, is diagnosed and nothing of it is run (run_source,
\* run_file and main).
THEOREM RejectedNeverRuns == Spec => []RejectedRunsNothing
<1>1. IInv => RejectedRunsNothing
  BY ListEmpty DEF IInv, Exits, RejectedRunsNothing
<1> QED
  BY <1>1, DriverIInv, PTL

\* A script's exit code is 0 exactly when nothing was reported on stderr.
THEOREM ExitCodeIsTruthful == Spec => []ExitCodeTellsFailure
<1>1. IInv => ExitCodeTellsFailure
  BY DEF IInv, Exits, ExitCodeTellsFailure, Repl
<1> QED
  BY <1>1, DriverIInv, PTL

\* However long a session is and however its lines fail, each prompt is followed by
\* exactly what its line prints as a program alone (run_repl).
THEOREM SessionsAreSums == Spec => []SessionIsSumOfLines
<1>1. IInv => SessionIsSumOfLines
  BY DEF IInv, Session, SessionIsSumOfLines
<1> QED
  BY <1>1, DriverIInv, PTL
=============================================================================
