------------------------------ MODULE CtlOutput ------------------------------
(***************************************************************************)
(* How a keleustesctl command writes its result and how it ends.           *)
(*                                                                         *)
(* A command renders a sequence of pieces.  A piece is written in one of   *)
(* three ways: "checked", where a failed write is returned as the          *)
(* command's error; "latched", through describe's errWriter; "flush", a    *)
(* table that fills a tabwriter's buffer and reaches the output only when  *)
(* the deferred Flush runs, whose error is dropped.  Standard output may   *)
(* refuse a write (a full disk behind a redirection) and take the next.    *)
(***************************************************************************)
EXTENDS Naturals, Sequences

CONSTANT MaxFailures    \* bound on the writes the output refuses

VARIABLES inv,      \* the command line: a record whose field verb is the command
          todo,     \* pieces still to be written
          due,      \* everything rendered so far, written or not
          out,      \* what the output has taken
          latch,    \* errWriter.err is set
          refused,  \* how the refused writes were made
          exit      \* how the command ended

outputVars == <<todo, due, out, latch, refused, exit>>

Running    == [kind |-> "running"]
OK         == [kind |-> "ok"]
WriteError == [kind |-> "writeError"]
Failed(why) == [kind |-> why]

Piece(how, what) == [how |-> how, what |-> what]

OutputInit ==
    /\ todo = << >> /\ due = << >> /\ out = << >>
    /\ latch = FALSE /\ refused = << >>
    /\ exit = Running

Render(pieces) ==
    /\ todo' = pieces
    /\ due' = due \o pieces
    /\ UNCHANGED <<out, latch, refused, exit>>

Exit(how) ==
    /\ exit' = how
    /\ UNCHANGED <<todo, due, out, latch, refused>>

Writing == exit = Running /\ todo # << >>

Accepted == out' = Append(out, Head(todo)) /\ UNCHANGED refused
Refused  == /\ Len(refused) < MaxFailures
            /\ refused' = Append(refused, Head(todo).how)
            /\ UNCHANGED out

(* fmt.Fprintln, json.Encoder or w.Write with its error returned.          *)
WriteChecked ==
    /\ Writing /\ Head(todo).how = "checked"
    /\ \/ Accepted /\ todo' = Tail(todo) /\ UNCHANGED exit
       \/ Refused /\ todo' = << >> /\ exit' = WriteError
    /\ UNCHANGED <<due, latch>>

(* Seeded bug: without the early return each write overwrites the error.   *)
printfLastErrorWins ==
    /\ Writing /\ Head(todo).how = "latched"
    /\ \/ Accepted /\ latch' = FALSE
       \/ Refused /\ latch' = TRUE
    /\ todo' = Tail(todo)
    /\ UNCHANGED <<due, exit>>

(* errWriter.printf: the first error turns the later writes into no-ops.   *)
printf ==
    /\ Writing /\ Head(todo).how = "latched"
    /\ \/ latch /\ UNCHANGED <<out, refused, latch>>
       \/ ~ latch /\ Accepted /\ UNCHANGED latch
       \/ ~ latch /\ Refused /\ latch' = TRUE
    /\ todo' = Tail(todo)
    /\ UNCHANGED <<due, exit>>

(* defer func() { _ = tw.Flush() }()                                       *)
Flush ==
    /\ Writing /\ Head(todo).how = "flush"
    /\ Accepted \/ Refused
    /\ todo' = Tail(todo)
    /\ UNCHANGED <<due, latch, exit>>

WriteStep == WriteChecked \/ printf \/ Flush

(* The renderer returns: nil, or the error the latch holds.                *)
RenderReturns ==
    /\ exit = Running /\ todo = << >> /\ due # << >>
    /\ exit' = IF latch THEN WriteError ELSE OK
    /\ UNCHANGED <<todo, due, out, latch, refused>>

-----------------------------------------------------------------------------
(* A command that exits 0 has delivered every piece it rendered, in order, *)
(* even when the output refused one write and took the next ones; the one  *)
(* loss that can go unreported is a table's, in the dropped Flush error.   *)
OutputReported ==
    exit = OK => \/ out = due
                 \/ /\ "flush" \in {refused[i] : i \in DOMAIN refused}
                    /\ \A i \in DOMAIN due : due[i].how # "flush" =>
                           \E j \in DOMAIN out : out[j] = due[i]
==============================================================================
