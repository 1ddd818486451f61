---------------------------- MODULE MCApprovals ----------------------------
(* Two Agents and calls both may ask for: the installation of one of two   *)
(* Skills, a search that YOLO approves, and a harmless reading.            *)
EXTENDS Approvals, TLC

CONSTANTS skill1, skill2, search, read

Kind == [c \in {skill1, skill2, search, read} |->
           CASE c \in {skill1, skill2} -> "install_skill_from_github"
             [] c = search -> "search_news"
             [] c = read -> "read_text"]

Symmetric == Permutations(Workers) \cup Permutations(Nodes)
=============================================================================
