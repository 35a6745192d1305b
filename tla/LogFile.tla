------------------------------- MODULE LogFile -------------------------------
(***************************************************************************)
(* parse_file of src/ai_soc_agent/parsers.py: a log file read into events, *)
(* one line per step.  An export of Windows events may be one document,    *)
(* one that was cut short, or a record on every line, and so may a file of *)
(* Okta records be one document or JSON lines: that is its shape.  A       *)
(* document is modelled with every record on a line of its own.            *)
(***************************************************************************)
EXTENDS EventSource

VARIABLES at,         \* the line to read next
          rereading,  \* whether the evtx fallback is reading the file again
          year,       \* _SyslogYear._year
          previous    \* _SyslogYear._previous_month, 0 for None

fileVars == <<at, rereading, year, previous>>

FileInit ==
    /\ at = 1
    /\ rereading = FALSE
    /\ year = input.now.year
    /\ previous = 0

Lines == input.lines
Line == input.lines[at]
More == at <= Len(Lines)

From(source) == Reading("file") /\ input.source = source

(* One line read, in whatever way, into at most one event. *)
Read(parsed) ==
    /\ at' = at + 1
    /\ events' = events \o Taken(at, parsed)
    /\ UNCHANGED <<input, phase, rereading>>

-----------------------------------------------------------------------------
(* sshd: a line carries no year *)

(* Mutant: the year never rolls forward. *)
ResolvedOnce(line) ==
    IF HasMonth(line) /\ previous = 0 /\ line.month > input.now.month THEN year - 1 ELSE year

(* _SyslogYear.resolve *)
Resolved(line) ==
    CASE HasMonth(line) /\ previous = 0 /\ line.month > input.now.month -> year - 1
      [] HasMonth(line) /\ previous # 0 /\ line.month < previous        -> year + 1
      [] OTHER                                                          -> year

ReadSshdLine ==
    /\ From("sshd") /\ More
    /\ IF Dated(Line)
       THEN /\ ~DateRaises("sshd", Line, Resolved(Line))
            /\ year' = Resolved(Line)
            /\ previous' = IF HasMonth(Line) THEN Line.month ELSE previous
            /\ Read(ParseRaw("sshd", Line, year'))
       ELSE /\ Read(<<>>)
            /\ UNCHANGED <<year, previous>>

(* strptime raises: nothing of the file is used. *)
BadDate ==
    /\ From("sshd") /\ More
    /\ DateRaises("sshd", Line, Resolved(Line))
    /\ End("failed") /\ UNCHANGED fileVars

-----------------------------------------------------------------------------
(* nginx *)

ReadNginxLine ==
    /\ From("nginx") /\ More
    /\ Read(ParseNginx(Line))
    /\ UNCHANGED <<year, previous>>

-----------------------------------------------------------------------------
(* evtx: the file is streamed as one document, and read again line by line *)
(* when it turns out not to be one.                                        *)

(* A document ends with its root element: of a file with a record on every *)
(* line, the first line is the document.                                   *)
Breaks(n) ==
    \/ Lines[n].form = "cut"
    \/ /\ input.shape = "lines" /\ Lines[n].form # "blank"
       /\ Lines[n].form = "noise" \/ \E m \in 1..(n - 1) : Lines[m].form # "blank"

StreamRecord ==
    /\ From("evtx") /\ More /\ ~rereading /\ ~Breaks(at)
    /\ Read(ParseEvtx(Line))
    /\ UNCHANGED <<year, previous>>

(* Mutant: the line the document broke at is taken for read. *)
ReadOnFromHere == at + 1

RereadFrom == 1

(* ElementTree.ParseError *)
StreamBreaks ==
    /\ From("evtx") /\ ~rereading
    /\ IF More THEN Breaks(at) ELSE input.shape = "cut"
    /\ rereading' = TRUE
    /\ at' = RereadFrom
    /\ UNCHANGED <<input, events, phase, year, previous>>

RereadLine ==
    /\ From("evtx") /\ More /\ rereading
    /\ Read(ParseEvtx(Line))
    /\ UNCHANGED <<year, previous>>

-----------------------------------------------------------------------------
(* okta: what the first line is decides how the file is read *)

IsBlank == Lines # <<>> => Lines[1].form = "blank"
IsDocument == Lines # <<>> /\ (input.shape = "document" \/ Lines[1].form = "cut")

(* The records of a well-formed document, all at once; an Okta file whose  *)
(* first line is blank is left alone.                                      *)
LoadOktaDocument ==
    /\ From("okta") /\ at = 1
    /\ IsBlank \/ IsDocument
    /\ events' = IF IsBlank \/ \E n \in DOMAIN Lines : Lines[n].form = "cut" THEN <<>>
                 ELSE FlattenSeq([n \in DOMAIN Lines |-> Taken(n, ParseOkta(Lines[n]))])
    /\ phase' = "read"
    /\ UNCHANGED <<input, fileVars>>

(* A line that is not JSON is skipped. *)
ReadOktaLine ==
    /\ From("okta") /\ More /\ ~IsBlank /\ ~IsDocument
    /\ Read(ParseOkta(Line))
    /\ UNCHANGED <<year, previous>>

-----------------------------------------------------------------------------

EndOfFile ==
    /\ Reading("file") /\ ~More
    /\ input.source = "evtx" => rereading \/ input.shape # "cut"
    /\ input.source = "okta" => ~IsBlank
    /\ End("read") /\ UNCHANGED fileVars

ReadFile == \/ ReadSshdLine \/ BadDate
            \/ ReadNginxLine
            \/ StreamRecord \/ StreamBreaks \/ RereadLine
            \/ LoadOktaDocument \/ ReadOktaLine
            \/ EndOfFile
=============================================================================
