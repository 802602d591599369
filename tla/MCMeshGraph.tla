----------------------------- MODULE MCMeshGraph -----------------------------
(* A manifest like that of the tests, and accounts around every choice.    *)
EXTENDS MeshGraph

MCTexts == FieldTexts

Node(i, p) == [id |-> i, holder |-> "h-" \o i, planned |-> p]
Chan(n, x, y) == [name |-> n, a |-> x, b |-> y]

MCManifest ==
  [nodes |-> {Node("cloud", FALSE), Node("zentrale", FALSE), Node("werkstatt", FALSE),
              Node("hafenbuero", FALSE), Node("aussendienst", TRUE), Node("archiv", FALSE)},
   channels |-> {Chan("cloud-zentrale", "cloud", "zentrale"),
                 Chan("zentrale-werkstatt", "zentrale", "werkstatt"),
                 Chan("zentrale-hafenbuero", "zentrale", "hafenbuero"),
                 Chan("aussendienst-zentrale", "aussendienst", "zentrale"),
                 Chan("archiv-zentrale", "archiv", "zentrale")}]

\* A topology of strangers; one with a stranger, edges in both directions and one
\* without a channel; one that is a part of the mesh.
Strange == [id |-> "t0", agents |-> {"h-x"}, edges |-> {}]
Mesh == [id |-> "t1", agents |-> {n.holder : n \in MCManifest.nodes} \cup {"h-x"},
         edges |-> {<<"h-cloud", "h-zentrale">>, <<"h-werkstatt", "h-zentrale">>,
                    <<"h-zentrale", "h-hafenbuero">>, <<"h-zentrale", "h-aussendienst">>,
                    <<"h-werkstatt", "h-hafenbuero">>, <<"h-x", "h-zentrale">>}]
Part == [id |-> "t2", agents |-> {"h-zentrale", "h-werkstatt"},
         edges |-> {<<"h-werkstatt", "h-zentrale">>}]

MCAccounts ==
  {Failed, <<>>, <<Strange>>, <<Strange, Mesh>>, <<Part, Mesh>>, <<Mesh, Failed>>,
   <<Mesh, Strange, Failed>>, <<Strange, Strange, Mesh>>}

MCWanted == {None, "t1", "t9"}

=============================================================================
