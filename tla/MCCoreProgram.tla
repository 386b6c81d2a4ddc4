--------------------------- MODULE MCCoreProgram ---------------------------
(* Small packs and phases for TLC.                                             *)
EXTENDS CoreProgram

LOCAL Step(type, trust, tool, taints, causes) ==
    [event_type |-> type, input_trust |-> trust, tool_name |-> tool, taint_labels |-> taints,
     caused_by_sequences |-> causes]

LOCAL Test(op, path, value) == [op |-> op, path |-> path, value |-> value]

LOCAL Cond(type, tests) == [event_type |-> type, tests |-> tests]

LOCAL Untrusted == Cond("input", <<Test("equals", "input_trust", "untrusted")>>)
LOCAL ToolUsed  == Cond("tool", <<Test("exists", "tool_name", TRUE)>>)

\* Untrusted input before a tool is used; the twin has the same steps, in another order or
\* trusted.
LOCAL PromptInjection(benign) ==
    [conditions |-> <<Untrusted, ToolUsed>>,
     malicious  |-> <<Step("input", "untrusted", None, {"web"}, {}),
                      Step("delegation", "trusted", None, {}, {1}),
                      Step("tool", "trusted", "t", {}, {1})>>,
     benign     |-> benign]

LOCAL Reordered == <<Step("tool", "trusted", "t", {}, {}), Step("input", "untrusted", None, {}, {})>>
LOCAL Trusted   == <<Step("input", "trusted", None, {}, {}), Step("tool", "trusted", "t", {}, {1})>>

\* A detector that a mutation defeats: it names the tool.
LOCAL NamesTool ==
    [conditions |-> <<Cond(None, <<Test("equals", "tool_name", "t"),
                                   Test("contains", "taint_labels", "web")>>)>>,
     malicious  |-> <<Step("tool", "untrusted", "t", {"web"}, {})>>,
     benign     |-> <<Step("tool", "trusted", "t", {}, {})>>]

\* A detector that the noise of a mutation satisfies.
LOCAL NoiseMatches ==
    [conditions |-> <<Cond(None, <<Test("not_equals", "input_trust", "untrusted")>>),
                      Cond("tool", <<Test("exists", "tool_name", TRUE)>>)>>,
     malicious  |-> <<Step("input", "trusted", None, {}, {}), Step("tool", "untrusted", "t", {}, {})>>,
     benign     |-> <<Step("tool", "untrusted", "t", {}, {})>>]

\* A detector that looks at what a run gives: accepted, and not met by any event.
LOCAL LooksAtRun ==
    [conditions |-> <<Cond("tool", <<Test("exists", "sequence", FALSE)>>)>>,
     malicious  |-> <<Step("tool", "trusted", "t", {}, {})>>,
     benign     |-> <<Step("input", "trusted", None, {}, {})>>]

\* Refused: no event has a sequence when a pack is loaded.
LOCAL LooksAtOrder ==
    [LooksAtRun EXCEPT !.conditions = <<Cond("tool", <<Test("gte", "sequence", 1)>>)>>]

\* Two definitions in one pack, or one.
MCSelections ==
    {<<NamesTool, LooksAtRun>>, <<PromptInjection(Reordered)>>, <<PromptInjection(Trusted)>>,
     <<NoiseMatches>>, <<LooksAtRun, LooksAtOrder>>}

\* The last phase has no action on this platform.
MCPhases == <<{[tactic |-> "t1", network |-> FALSE], [tactic |-> "t2", network |-> FALSE]},
              {[tactic |-> "t3", network |-> TRUE], [tactic |-> "t4", network |-> FALSE]}, {}>>
=============================================================================
