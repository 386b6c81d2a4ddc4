------------------------------ MODULE AgentLabs ------------------------------
(* The labs, each a command of its own: the reference lab's server, the MCP     *)
(* lab, and the review of a lab artifact.  They share no state.                 *)
EXTENDS ReferenceLab, McpLab, LabArtifacts

VARIABLE command    \* the command that runs

labVars == <<command, runs, mcpVars, artifactVars>>

Init ==
    /\ command \in {"serve-reference-lab", "mcp-lab", "review-artifact"}
    /\ LabInit /\ McpInit /\ ArtifactInit

Serve  == command = "serve-reference-lab" /\ LabNext /\ UNCHANGED <<command, mcpVars, artifactVars>>
RunMcp == command = "mcp-lab" /\ McpNext /\ UNCHANGED <<command, runs, artifactVars>>
Review == command = "review-artifact" /\ ArtifactNext /\ UNCHANGED <<command, runs, mcpVars>>

Next == Serve \/ RunMcp \/ Review

Spec == Init /\ [][Next]_labVars

=============================================================================
