-------------------------------- MODULE Main --------------------------------
(***************************************************************************)
(* main(): the command line v2verifer {dsrc | cv2x} {transmitter |         *)
(* receiver} {tkgui | webgui | nogui} [--test], read one argument at a     *)
(* time with an early exit at the first bad one.  argv is argv[1..] as a   *)
(* sequence of strings, so argc is its length plus one.  The outcome is    *)
(* the program_arguments record main hands on, or the way the process      *)
(* ends: "usage" (print_usage and exit(EXIT_FAILURE)) or "crash".          *)
(***************************************************************************)
EXTENDS Naturals, Sequences

CONSTANT ArgDefaults  \* [tkgui, webgui, test] of program_arguments before
                      \* main assigns them (arguments.h is not in the
                      \* repository)

Exit(status) ==
    [status |-> status, mode |-> "none", tkgui |-> FALSE, webgui |-> FALSE, test |-> FALSE]

\* Mutant: "--test" accepted as argv[4] but args.test never set.
ParseArgsWithoutTest(argv) ==
    LET argc == Len(argv) + 1
    IN  IF argc < 3 \/ argc > 5 THEN Exit("usage")
        ELSE IF argv[1] \notin {"dsrc", "cv2x"} THEN Exit("usage")
        ELSE IF argv[2] \notin {"transmitter", "receiver"} THEN Exit("usage")
        ELSE IF argc = 3 THEN Exit("crash")
        ELSE IF argv[3] \notin {"tkgui", "webgui", "nogui"} THEN Exit("usage")
        ELSE IF argc = 5 /\ argv[4] # "--test" THEN Exit("usage")
        ELSE [status |-> "run", mode |-> argv[2],
              tkgui |-> argv[3] = "tkgui" \/ ArgDefaults.tkgui,
              webgui |-> argv[3] = "webgui" \/ (argv[3] # "nogui" /\ ArgDefaults.webgui),
              test |-> ArgDefaults.test]

(***************************************************************************)
(* The checks of main, in order.  With argc = 3 the range check passes,    *)
(* and std::string(argv[3]) is built from the terminating null pointer:    *)
(* undefined behaviour, which ends the process abnormally ("crash").       *)
(* "nogui" runs `args.tkgui, args.webgui = false;`: a comma expression     *)
(* that assigns webgui only.  Without --test, test keeps its default.      *)
(***************************************************************************)
ParseArgs(argv) ==
    LET argc == Len(argv) + 1
    IN  IF argc < 3 \/ argc > 5 THEN Exit("usage")
        ELSE IF argv[1] \notin {"dsrc", "cv2x"} THEN Exit("usage")
        ELSE IF argv[2] \notin {"transmitter", "receiver"} THEN Exit("usage")
        ELSE IF argc = 3 THEN Exit("crash")
        ELSE IF argv[3] \notin {"tkgui", "webgui", "nogui"} THEN Exit("usage")
        ELSE IF argc = 5 /\ argv[4] # "--test" THEN Exit("usage")
        ELSE [status |-> "run",
              mode   |-> argv[2],
              tkgui  |-> IF argv[3] = "tkgui" THEN TRUE ELSE ArgDefaults.tkgui,
              webgui |-> IF argv[3] = "webgui" THEN TRUE
                         ELSE IF argv[3] = "nogui" THEN FALSE
                         ELSE ArgDefaults.webgui,
              test   |-> IF argc = 5 THEN TRUE ELSE ArgDefaults.test]

\* main reaches the branch of sim_mode `mode` (the thread loop of a
\* transmitter, or receive) only when the arguments parsed.
Starts(args, mode) == args.status = "run" /\ args.mode = mode

=============================================================================
