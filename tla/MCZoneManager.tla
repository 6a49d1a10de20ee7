--------------------------- MODULE MCZoneManager ---------------------------
(* Small instances of ZoneManager for TLC.                                 *)
EXTENDS ZoneManager

MCEditing == {"edit", "move"}
MCAll     == {r.op : r \in Requests}

MCFile(v, data)   == [view |-> v, plugin |-> "file", file |-> data]
MCDynamic(data)   == [view |-> "public", plugin |-> "dns-update-persistent", file |-> data]
MCStart(blocks, ops, ws, ro) ==
    [core |-> blocks, ops |-> ops, workers |-> ws, readonly |-> ro]

(* One request at a time from an origin with a view, from a view alone and *)
(* from nothing; edits at once, also where the Corefile cannot be written; *)
(* two requests that create the same origin.                               *)
MCSound ==
    {MCStart(<<MCFile("public", {"www"}), MCFile("a", {"*"})>>, MCAll, {1}, FALSE),
     MCStart(<<MCFile("a", {"www"}), MCFile("public", NoZone)>>,
             MCAll \ {"renameACL"}, {1}, FALSE),
     MCStart(<<>>, MCAll, {1}, FALSE),
     MCStart(<<MCDynamic({"*"}), MCFile("a", {"www"})>>, MCEditing, Workers, FALSE),
     MCStart(<<MCDynamic({"*"}), MCFile("a", {"www"})>>, MCEditing, Workers, TRUE),
     MCStart(<<>>, {"create"}, Workers, FALSE)}

(* The view's block comes before the public one.                           *)
MCViewFirst ==
    {MCStart(<<MCFile("a", {"*"}), MCFile("public", {"www"})>>, {"edit"}, {1}, FALSE)}
=============================================================================
