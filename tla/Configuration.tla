--------------------------- MODULE Configuration ---------------------------
(***************************************************************************)
(* From the start of the program to its first connection: config.Load puts *)
(* every setting together from its sources, checks what it has, and Run    *)
(* makes the accrual client of it before it connects to the database.      *)
(***************************************************************************)
EXTENDS Integers

CONSTANTS
    Starts,         \* the command lines, environments and files to start with
    Absent          \* a source does not have the setting

Settings == {"run", "database", "accrual"}

\* Values by what the checks tell apart; "default" is localhost:8080.
Good == {"good", "better", "default"}
Values == Good \cup {"", "bad"}

\* A command line that cannot be parsed, asks for help, has something left over,
\* or is in order; a file by what Open and Decode make of it.
CommandLines == {"ok", "unknown flag", "help", "positional"}
Files == {"missing", "unreadable", "empty", "malformed", "unknown key",
          "two documents", "ok"}

Sources == [Settings -> Values \cup {Absent}]

StartsAssumption ==
    /\ Absent \notin Values
    /\ Starts \subseteq [line : CommandLines, flags : Sources, path : BOOLEAN,
                         env : Sources, file : Files, yaml : Sources]

VARIABLES
    start,          \* the sources; path says whether -c is there
    cfg,            \* the settings
    pc              \* the next step, or how the program ended

vars == <<start, cfg, pc>>
-----------------------------------------------------------------------------
\* Some source over what there is so far.
Over(source, settings) ==
    [s \in Settings |-> IF source[s] = Absent THEN settings[s] ELSE source[s]]
-----------------------------------------------------------------------------
(***************************************************************************)
(* Faults: a plausible mistake in the code each.  They are no part of the  *)
(* specification; they show what the properties below detect.              *)
(***************************************************************************)
\* A flag with an empty value counts as none.
ExplicitNonempty(flags) == [s \in Settings |-> IF flags[s] = "" THEN Absent ELSE flags[s]]
-----------------------------------------------------------------------------
Init ==
    /\ start \in Starts
    /\ cfg = [s \in Settings |-> IF s = "run" THEN "default" ELSE ""]
    /\ pc = "flags"

Step(next) == pc' = next /\ UNCHANGED start

\* flags.Parse and NArg; help ends the program without an error.
ParseFlags ==
    /\ pc = "flags"
    /\ Step(CASE start.line = "help" -> "ended"
              [] start.line \in {"unknown flag", "positional"} -> "failed"
              [] OTHER -> "file")
    /\ UNCHANGED cfg

\* loadFile.  Decode sets what it has understood even if it fails.
LoadFile ==
    /\ pc = "file"
    /\ Step(CASE start.file \in {"empty", "ok"} -> "environment"
              [] start.file = "missing" /\ ~start.path -> "environment"
              [] OTHER -> "failed")
    /\ cfg' = IF start.file \in {"ok", "unknown key", "two documents"}
              THEN Over(start.yaml, cfg) ELSE cfg

\* Variables that are set to something.
Nonempty(env) == [s \in Settings |-> IF env[s] = "" THEN Absent ELSE env[s]]

ReadEnvironment ==
    /\ pc = "environment"
    /\ Step("explicit flags")
    /\ cfg' = Over(Nonempty(start.env), cfg)

\* What flags.Visit goes through: the flags that are there.
Explicit(flags) == flags

ApplyFlags ==
    /\ pc = "explicit flags"
    /\ Step("check")
    /\ cfg' = Over(Explicit(start.flags), cfg)

\* The end of Load: the URI is not blank; the address has a host and a port.
Check ==
    /\ pc = "check"
    /\ Step(IF cfg["database"] = "" \/ cfg["run"] \in {"", "bad"}
            THEN "failed" ELSE "client")
    /\ UNCHANGED cfg

\* NewClient: an address with a host, and with the scheme http or https if any.
MakeClient ==
    /\ pc = "client"
    /\ Step(IF cfg["accrual"] \in {"", "bad"} THEN "failed" ELSE "connect")
    /\ UNCHANGED cfg

Next == ParseFlags \/ LoadFile \/ ReadEnvironment \/ ApplyFlags \/ Check \/ MakeClient

Spec == Init /\ [][Next]_vars
-----------------------------------------------------------------------------
\* What the sources have of a setting, from the most to the least important, by README.
Offers(s) == <<start.flags[s],
               IF start.env[s] = "" THEN Absent ELSE start.env[s],
               IF start.file = "ok" THEN start.yaml[s] ELSE Absent,
               IF s = "run" THEN "default" ELSE "">>

\* The most important of the sources from n on that have the setting says v.
Prevails(v, s, n) ==
    \E k \in n..4 : /\ v = Offers(s)[k] /\ v # Absent
                    /\ \A j \in n..k - 1 : Offers(s)[j] = Absent

\* The program goes on to the database exactly if its configuration is in order,
\* and then it has every setting from its own most important source: an explicit
\* flag, even an empty one, before a variable that is not empty, before the file,
\* before the default (README.md:31).  A file that was asked for and is missing, or
\* is no single document of known keys, stops it even where flags override all of
\* the file; an empty or missing file in the usual place does not.
ConnectedAsConfigured ==
    LET inOrder ==
            /\ start.line = "ok"
            /\ start.file \in {"ok", "empty"} \/ (start.file = "missing" /\ ~start.path)
            /\ \A s \in Settings : ~Prevails("", s, 1)
            /\ ~Prevails("bad", "run", 1) /\ ~Prevails("bad", "accrual", 1)
    IN  /\ pc = "connect" => inOrder /\ \A s \in Settings : Prevails(cfg[s], s, 1)
        /\ pc \in {"failed", "ended"} => ~inOrder
=============================================================================
