-------------------------------- MODULE RxText --------------------------------
(***************************************************************************)
(* RxText: what ReceiveAo makes of the received bytes.  Blocks are cut     *)
(* anywhere in the stream, so the escape machine and a trailing CR are     *)
(* carried from block to block; the view may change between two blocks.    *)
(* Bytes are told apart by what the formatter tells apart.  The line-start *)
(* flag, which drives no output, is left out; a batch always has room for  *)
(* a block (kDisplayBatchBytes is four times kRxBlockBytes).               *)
(***************************************************************************)
EXTENDS Integers, Sequences, SequencesExt

CONSTANTS
  Bytes,        \* the classes of bytes that arrive, a subset of Classes
  BlockMax,     \* bytes of a block
  StreamBound,  \* bound: bytes of a session
  ToggleBound   \* bound: changes of view

\* "letter" stands for 40-7E but the brackets, "print" for the other bytes shown
\* as they are (20-3F, TAB, 7F and up; TAB inside a CSI is "ctl").
Classes == {"esc", "[", "]", "letter", "print", "cr", "lf", "bel", "ctl"}

VARIABLES
  strip,      \* rx_strip_state: 0 text, 1 after ESC, 2 CSI, 3 OSC, 4 ESC in an OSC
  pendingCr,  \* rx_pending_cr
  hexView,    \* hex_view
  toggles,    \* changes of view so far
  stream,     \* history: the text-view bytes of the session
  shown,      \* history: what the text view showed of them
  hexStream,  \* history: the hex-view bytes of the session
  hexShown    \* history: what the hex view showed of them

vars == <<strip, pendingCr, hexView, toggles, stream, shown, hexStream, hexShown>>

Visible == {"print", "letter", "[", "]", "newline"}
Final == {"letter", "[", "]"}

TypeOK ==
  /\ strip \in 0 .. 4 /\ pendingCr \in BOOLEAN /\ hexView \in BOOLEAN
  /\ toggles \in 0 .. ToggleBound
  /\ stream \in Seq(Bytes) /\ shown \in Seq(Visible)
  /\ hexStream \in Seq(Bytes) /\ hexShown \in Seq(Bytes \cup {"space"})

Start == strip = 0 /\ pendingCr = FALSE

Init ==
  /\ Start /\ hexView = FALSE /\ toggles = 0
  /\ stream = <<>> /\ shown = <<>> /\ hexStream = <<>> /\ hexShown = <<>>

\* The escape machine inside a sequence.
Strip(s, b) ==
  CASE s = 1 -> IF b = "[" THEN 2 ELSE IF b = "]" THEN 3 ELSE 0
    [] s = 2 -> IF b \in Final THEN 0 ELSE 2
    [] s = 3 -> IF b = "bel" THEN 0 ELSE IF b = "esc" THEN 4 ELSE 3
    [] s = 4 -> 0

\* The text formatter on one byte of a block: state f, byte b, next byte c of
\* the same block.  The skipped byte is the LF of a pair within the block.
TextByte(f, b, c) ==
  LET cr == f.cr /\ b = "lf"                 \* the LF of a pair split by the block
      out(x) == [f EXCEPT !.cr = FALSE, !.out = Append(@, x)]
  IN CASE f.skip         -> [f EXCEPT !.skip = FALSE]
       [] ~f.skip /\ cr  -> [f EXCEPT !.cr = FALSE]
       [] ~f.skip /\ ~cr /\ f.strip # 0 -> [f EXCEPT !.cr = FALSE, !.strip = Strip(@, b)]
       [] OTHER ->
            CASE b = "esc"             -> [f EXCEPT !.cr = FALSE, !.strip = 1]
              [] b \in {"bel", "ctl"}  -> [f EXCEPT !.cr = FALSE]
              [] b = "cr"              -> [out("newline") EXCEPT !.skip = c = "lf", !.cr = c # "lf"]
              [] b = "lf"              -> out("newline")
              [] OTHER                 -> out(b)

Text(bytes) ==
  LET next(i) == IF i < Len(bytes) THEN bytes[i + 1] ELSE "none"
      step(f, i) == TextByte(f, bytes[i], next(i))
  IN FoldLeft(step, [strip |-> strip, cr |-> pendingCr, skip |-> FALSE, out |-> <<>>],
              [i \in 1 .. Len(bytes) |-> i])

\* Mutation: the carry of a CR is lost at the end of a block.
TextBlockForgetsCr(bytes) ==
  LET f == Text(bytes)
  IN /\ ~hexView /\ strip' = f.strip /\ pendingCr' = FALSE
     /\ stream' = stream \o bytes /\ shown' = shown \o f.out
     /\ UNCHANGED <<hexStream, hexShown>>

\* rx_format_block in the text view
TextBlock(bytes) ==
  LET f == Text(bytes)
  IN /\ ~hexView /\ strip' = f.strip /\ pendingCr' = f.cr
     /\ stream' = stream \o bytes /\ shown' = shown \o f.out
     /\ UNCHANGED <<hexStream, hexShown>>

\* Mutation: the last byte goes with its space.
HexShort(bytes) ==
  LET pairs == FoldLeft(LAMBDA out, b : out \o <<b, "space">>, <<>>, bytes)
  IN SubSeq(pairs, 1, Len(pairs) - 2)

\* Each byte and a space, the last space of the block dropped.
Hex(bytes) ==
  LET pairs == FoldLeft(LAMBDA out, b : out \o <<b, "space">>, <<>>, bytes)
  IN SubSeq(pairs, 1, Len(pairs) - 1)

HexBlock(bytes) ==
  /\ hexView
  /\ hexStream' = hexStream \o bytes /\ hexShown' = hexShown \o Hex(bytes)
  /\ UNCHANGED <<strip, pendingCr, stream, shown>>

Block ==
  /\ \E n \in 1 .. BlockMax : \E bytes \in [1 .. n -> Bytes] :
       /\ Len(stream) + Len(hexStream) + n <= StreamBound
       /\ TextBlock(bytes) \/ HexBlock(bytes)
  /\ UNCHANGED <<hexView, toggles>>

\* xcom_set_options changes the view; the formatter's state is not touched.
Toggle ==
  /\ toggles < ToggleBound /\ toggles' = toggles + 1
  /\ hexView' = ~hexView
  /\ UNCHANGED <<strip, pendingCr, stream, shown, hexStream, hexShown>>

\* Mutation: the escape machine survives the session.
CommitKeepsStrip ==
  /\ pendingCr' = FALSE /\ stream' = <<>> /\ shown' = <<>>
  /\ hexStream' = <<>> /\ hexShown' = <<>>
  /\ UNCHANGED <<strip, hexView, toggles>>

\* kOpenCommit, kCloseCommit
Commit ==
  /\ strip' = 0 /\ pendingCr' = FALSE /\ stream' = <<>> /\ shown' = <<>>
  /\ hexStream' = <<>> /\ hexShown' = <<>>
  /\ UNCHANGED <<hexView, toggles>>

Next == Block \/ Toggle \/ Commit
Spec == Init /\ [][Next]_vars

-----------------------------------------------------------------------------
(* Properties                                                              *)

\* The same stream read as a whole: one escape sequence, line break or byte after
\* the other, at position i of s.
EndOf(s, i, ends) ==
  IF \E k \in i .. Len(s) : s[k] \in ends
  THEN CHOOSE k \in i .. Len(s) : s[k] \in ends /\ \A j \in i .. k - 1 : s[j] \notin ends
  ELSE Len(s)

Token(s, i) ==
  LET second == IF i < Len(s) THEN s[i + 1] ELSE "none"
      osc == EndOf(s, i + 2, {"bel", "esc"})
  IN CASE s[i] = "cr" /\ second = "lf" -> [shows |-> <<"newline">>, length |-> 2]
       [] s[i] \in {"cr", "lf"} /\ ~(s[i] = "cr" /\ second = "lf") ->
            [shows |-> <<"newline">>, length |-> 1]
       [] s[i] \in {"bel", "ctl"} -> [shows |-> <<>>, length |-> 1]
       [] s[i] = "esc" /\ second = "[" ->
            [shows |-> <<>>, length |-> EndOf(s, i + 2, Final) - i + 1]
       [] s[i] = "esc" /\ second = "]" ->
            [shows |-> <<>>, length |-> (IF s[osc] = "esc" THEN osc + 1 ELSE osc) - i + 1]
       [] s[i] = "esc" /\ second \notin {"[", "]"} -> [shows |-> <<>>, length |-> 2]
       [] OTHER -> [shows |-> <<s[i]>>, length |-> 1]

Clean(s) ==
  LET from[i \in 1 .. Len(s) + 2] ==
        IF i > Len(s) THEN <<>>
        ELSE Token(s, i).shows \o from[i + Token(s, i).length]
  IN from[1]

\* What the text view has shown is the stream read as a whole: no escape byte and
\* no second line break leaks through where a block was cut, no text is swallowed,
\* and nothing of the session before is carried over.
ShownIsClean == shown = Clean(stream)

\* The hex view shows every byte it was given, in order, bytes of one block apart.
HexIsFaithful ==
  /\ SelectSeq(hexShown, LAMBDA x : x # "space") = hexStream
  /\ \A i \in 1 .. Len(hexShown) - 1 : hexShown[i] = "space" => hexShown[i + 1] # "space"

\* Neither view depends on where the stream was cut into blocks.
ViewsFaithful == TypeOK /\ ShownIsClean /\ HexIsFaithful

=============================================================================
