----------------------------- MODULE Launcher -----------------------------
(***************************************************************************)
(* The two GJS launchers: main () of src/src/run-js-test.c and of          *)
(* src/src/gnome-shell-extension-prefs.c, as sequential programs with a    *)
(* pc.  Every library call that can fail (clutter_init, option parsing,     *)
(* defining ARGV, reading the script, evaluating it) is a nondeterministic  *)
(* success or error; the error exits or aborts as the code does.           *)
(*                                                                         *)
(* argv is abstracted to its length: after the toolkits and the option     *)
(* parser have removed what they consume, argv[0..argc-1] are strings and  *)
(* argv[argc] is the NULL terminator.  The ghost argv_read records which    *)
(* elements gjs_context_define_string_array reads.                          *)
(***************************************************************************)
EXTENDS Integers

CONSTANTS
  Programs,     \* the mains checked: a subset of {"run_js_test", "prefs"}
  MaxArgc,      \* bound on argc
  Codes         \* exit codes a script can produce

ASSUME Programs \subseteq {"run_js_test", "prefs"} /\ Programs # {}
ASSUME MaxArgc \in Nat \ {0}
ASSUME Codes \subseteq Nat /\ 0 \in Codes

VARIABLES
  prog,         \* which main runs
  pc,           \* the next statement of main, or "exited" / "aborted"
  argc,         \* argc when ARGV is defined
  command,      \* the --command option was given
  coverage_prefixes,    \* --coverage-prefix was given
  coverage_output_path, \* --coverage-output was given
  script,       \* what script points to: "none", "command", "console" or "file"
  code,         \* the status gjs_context_eval stored
  exit_code,    \* the process's exit status once pc = "exited"
  argv_read     \* ghost: indices of argv read to define ARGV

vars == <<prog, pc, argc, command, coverage_prefixes, coverage_output_path,
          script, code, exit_code, argv_read>>

Init ==
  /\ prog \in Programs
  /\ pc = "start"
  /\ argc \in 1..MaxArgc
  /\ command = FALSE /\ coverage_prefixes = FALSE /\ coverage_output_path = FALSE
  /\ script = "none"
  /\ code = 0 /\ exit_code = 0
  /\ argv_read = {}

Exit(c) == pc' = "exited" /\ exit_code' = c

(***************************************************************************)
(* gjs_context_define_string_array (ctx, "ARGV", n, argv + first): n < 0    *)
(* means a NULL-terminated array, whose length g_strv_length counts from    *)
(* argv[first] up to the first NULL.  From past the terminator the scan     *)
(* reads whatever memory follows.                                           *)
(***************************************************************************)
StrvRead(first, n) ==
  IF n >= 0 THEN first..(first + n - 1)
  ELSE IF first <= argc THEN first..argc
  ELSE {first}

\* Defining ARGV succeeds or fails; a failure exits with status 1.
DefineArgv(first, next) ==
  /\ argv_read' = StrvRead(first, argc - first)
  /\ \/ pc' = next /\ UNCHANGED exit_code
     \/ Exit(1)

-----------------------------------------------------------------------------
\* run-js-test.c: gtk_init, clutter_init (a failure returns 1), settings.
RunInit ==
  /\ prog = "run_js_test" /\ pc = "start"
  /\ \/ pc' = "options" /\ UNCHANGED exit_code
     \/ Exit(1)
  /\ UNCHANGED <<prog, argc, command, coverage_prefixes, coverage_output_path, script,
                 code, argv_read>>

\* g_option_context_parse: a failure is g_error, which aborts.
RunParseOptions ==
  /\ prog = "run_js_test" /\ pc = "options"
  /\ \/ pc' = "aborted" /\ UNCHANGED <<command, coverage_prefixes, coverage_output_path>>
     \/ /\ pc' = "argv"
        /\ command' \in BOOLEAN
        /\ coverage_prefixes' \in BOOLEAN
        /\ coverage_output_path' \in BOOLEAN
  /\ UNCHANGED <<prog, argc, script, code,
                 exit_code, argv_read>>

\* ARGV from argv + 2, argc - 2 elements.
RunDefineArgv ==
  /\ prog = "run_js_test" /\ pc = "argv"
  /\ DefineArgv(2, "script")
  /\ UNCHANGED <<prog, argc, command, coverage_prefixes, coverage_output_path, script,
                 code>>

(***************************************************************************)
(* The script: the --command string, the console for no argument, or the   *)
(* contents of argv[1], whose read may fail (exit 1, nothing allocated).   *)
(***************************************************************************)
RunChooseScript ==
  /\ prog = "run_js_test" /\ pc = "script"
  /\ \/ command /\ script' = "command" /\ pc' = "coverage" /\ UNCHANGED exit_code
     \/ ~command /\ argc <= 1 /\ script' = "console" /\ pc' = "coverage"
        /\ UNCHANGED exit_code
     \/ ~command /\ argc >= 2 /\ script' = "file" /\ pc' = "coverage"
        /\ UNCHANGED exit_code
     \/ ~command /\ argc >= 2 /\ Exit(1) /\ UNCHANGED script
  /\ UNCHANGED <<prog, argc, command, coverage_prefixes, coverage_output_path,
                 code, argv_read>>

\* --coverage-prefix without --coverage-output is g_error; else gjs_coverage_new.
RunCoverage ==
  /\ prog = "run_js_test" /\ pc = "coverage"
  /\ pc' = IF coverage_prefixes /\ ~coverage_output_path THEN "aborted" ELSE "eval"
  /\ UNCHANGED <<prog, argc, command, coverage_prefixes, coverage_output_path, script,
                 code, exit_code, argv_read>>

\* gjs_context_eval: a failure frees the script and exits 1.
RunEval ==
  /\ prog = "run_js_test" /\ pc = "eval"
  /\ \/ Exit(1) /\ UNCHANGED code
     \/ /\ pc' = "finish"
        /\ code' \in Codes
        /\ UNCHANGED <<exit_code>>
  /\ UNCHANGED <<prog, argc, command, coverage_prefixes, coverage_output_path, script,
                 argv_read>>

\* Two GCs, the statistics only for a status of 0, then g_free and exit (code).
RunFinish ==
  /\ prog = "run_js_test" /\ pc = "finish"
  /\ Exit(code)
  /\ UNCHANGED <<prog, argc, command, coverage_prefixes, coverage_output_path, script,
                 code, argv_read>>

-----------------------------------------------------------------------------
\* gnome-shell-extension-prefs.c: text domain, search path, the context;
\* ARGV from argv + 1, argc - 1 elements (a failure returns 1).
PrefsDefineArgv ==
  /\ prog = "prefs" /\ pc = "start"
  /\ DefineArgv(1, "eval")
  /\ UNCHANGED <<prog, argc, command, coverage_prefixes, coverage_output_path, script,
                 code>>

\* Evaluate Main.main (ARGV): success returns 0, a failure returns the
\* status gjs stored (1, or the code of a System.exit).
PrefsEval ==
  /\ prog = "prefs" /\ pc = "eval"
  /\ \/ code' \in Codes /\ Exit(0)
     \/ \E c \in Codes \cup {1} : code' = c /\ Exit(c)
  /\ UNCHANGED <<prog, argc, command, coverage_prefixes, coverage_output_path, script,
                 argv_read>>

\* The process has ended.
Terminated == pc \in {"exited", "aborted"} /\ UNCHANGED vars

Next ==
  \/ RunInit \/ RunParseOptions \/ RunDefineArgv \/ RunChooseScript
  \/ RunCoverage \/ RunEval \/ RunFinish
  \/ PrefsDefineArgv \/ PrefsEval
  \/ Terminated

Spec == Init /\ [][Next]_vars

-----------------------------------------------------------------------------
TypeOK ==
  /\ prog \in Programs
  /\ pc \in {"start", "options", "argv", "script", "coverage", "eval", "finish",
             "exited", "aborted"}
  /\ argc \in 1..MaxArgc
  /\ script \in {"none", "command", "console", "file"}
  /\ code \in Codes \cup {1}
  /\ argv_read \subseteq Nat

(***************************************************************************)
(* ARGV is built only from argv's own elements: every element read to      *)
(* define it lies in argv[0..argc], its strings and its NULL terminator,    *)
(* whichever arguments the launcher was started with.                       *)
(***************************************************************************)
ArgvWithinArgs == argv_read \subseteq 0..argc

=============================================================================
