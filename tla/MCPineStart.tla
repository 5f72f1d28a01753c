---------------------------- MODULE MCPineStart ----------------------------
(* Devices for TLC: every generation the code tells apart, each with what it *)
(* may lack.                                                                 *)
EXTENDS PineStart, TLC

Layout(f, j, c) == [flags |-> f, jni |-> j, code |-> c]

\* A device with the members at these offsets, and what the flags read as.
At(dev, layout, extra) ==
  [dev EXCEPT !.layout = layout, !.words = layout.flags :> extra, !.rulers = {layout.jni}]

Few == {[name |-> "ensure", arg |-> FALSE], [name |-> "disablePolicy", arg |-> TRUE]}

Options(inline, other) == [o \in {"inline", "other"} |-> IF o = "inline" THEN inline ELSE other]

\* A 64-bit device of today that lacks nothing but what belongs to other versions.
Stock == [version |-> 30, wide |-> TRUE, missing |-> {"smallIrt", "aocBridge"},
          unprotects |-> TRUE, javaVm |-> TRUE, saver |-> FALSE, isMr1 |-> FALSE,
          options |-> Options("normal", "normal"), names |-> "inline", updates |-> TRUE,
          size |-> 40, words |-> 4 :> {}, rulers |-> {24}, layout |-> Layout(4, 24, 32),
          calls |-> Few]

Lacking(symbols) == Stock.missing \union symbols

\* Twice a word or a pointer that looks like a member: behind both members, where it
\* misleads nobody, and before the second, where it is taken for the flags.
Devices == {
  [Stock EXCEPT !.calls = Ops],
  [At(Stock, Layout(4, 24, 32), {"dontBother"})
     EXCEPT !.missing = Lacking({"resumeAll", "denyField"})],
  [At(Stock, Layout(8, 28, 40), {"dontBother", "preCompiled"})
     EXCEPT !.missing = Lacking({"endGc"}), !.size = 48],
  [At(Stock, Layout(4, 16, 24), {})
     EXCEPT !.version = 34, !.words = (4 :> {}) @@ (30 :> {}), !.rulers = {16, 32}],
  [At(Stock, Layout(4, 20, 24), {"other"})
     EXCEPT !.version = 34, !.wide = FALSE, !.rulers = {}, !.missing = {"aocBridge"},
            !.size = 28],
  [Stock EXCEPT !.version = 29, !.words = (4 :> {}) @@ (12 :> {})],
  [Stock EXCEPT !.version = 29, !.missing = Lacking({"update", "suspendVm"}),
                !.unprotects = FALSE, !.javaVm = FALSE, !.options = Options("odd", "normal")],
  [Stock EXCEPT !.version = 29, !.names = "other"],
  [Stock EXCEPT !.version = 29, !.updates = FALSE],
  [At(Stock, Layout(4, 20, 24), {"dontBother"})
     EXCEPT !.version = 28, !.wide = FALSE, !.saver = TRUE, !.missing = {"interpreterBridge"}],
  [At(Stock, Layout(4, 24, 28), {})
     EXCEPT !.version = 26, !.wide = FALSE, !.isMr1 = TRUE,
            !.missing = Lacking({"interpreterBridge", "moveObsolete", "resumeVm"})]}

\* The users and the threads are alike; the properties are invariants.
StartSymmetry == Permutations(Users) \union Permutations(Threads)
=============================================================================
