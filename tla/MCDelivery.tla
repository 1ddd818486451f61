------------------------------ MODULE MCDelivery ------------------------------
(* Two producers with a file each in output, of which the user wants the   *)
(* DOCX, and a reviewer with a file in its workspace.                      *)
EXTENDS Delivery

MCProducers == {"a", "b"}
MCDependsOn == [n \in {"a", "b", "r"} |-> IF n = "r" THEN {"a", "b"} ELSE {}]
MCPaths == {"a_docx", "b_text", "r_text"}
MCArea == [p \in MCPaths |-> IF p = "r_text" THEN "workspace" ELSE "output"]
MCOwner == [p \in MCPaths |-> CASE p = "a_docx" -> "a" [] p = "b_text" -> "b" [] p = "r_text" -> "r"]
MCKind == [p \in MCPaths |-> IF p = "a_docx" THEN "docx" ELSE "text"]

(* Every kind of file the gate wants inspected can pass its inspection. *)
ASSUME InspectableCanPass == \A kind \in Inspectable : Passes(kind, "good")
=============================================================================
