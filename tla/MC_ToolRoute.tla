----------------------------- MODULE MC_ToolRoute -----------------------------
\* Three integrations of two tools and two families, one bridge, one remote
\* runner; every kind of file changes in a way that is legal by itself.
EXTENDS ToolRoute

A(name, tool, family, argv) ==
  [name |-> name, tool |-> tool, family |-> family, argv |-> argv, verified |-> TRUE,
   command |-> "kimi acp"]

I(id, tool, family, adapter, bridge, priority) ==
  [id |-> id, tool |-> tool, family |-> family, adapter |-> adapter, bridge |-> bridge,
   priority |-> priority, home |-> "home", timeout |-> 2,
   roles |-> {}, transport |-> "", qualified |-> TRUE, endpoint |-> None]

R(priority, endpoint) ==
  [version |-> "tool-integrations/1",
   entries |-> <<I("codex-b", "codex", "B", "codex-b", None, priority),
                 I("kimi", "kimi", "B", "kimi", "kimi", 1),
                 I("codex", "codex", "A", "codex", None, 2)>>,
   targets |-> {[id |-> "far", integration |-> "codex", endpoint |-> endpoint,
                 runner |-> "far", priority |-> 1]}]

Agent(id, tool, family, transport, roles) ==
  [I(id, tool, family, IF transport = "local-cli" THEN id ELSE None, None, 1) EXCEPT
     !.roles = roles, !.transport = transport, !.qualified = FALSE]

MCLegacy ==
  [version |-> "dispatch/1",
   entries |-> <<Agent("codex", "codex", "A", "local-cli", {"generator", "evaluator"}),
                 Agent("host", "kimi", "B", "subagent", {"generator"}),
                 [Agent("kimi", "kimi", "B", "local-cli", {"generator"}) EXCEPT !.qualified = TRUE],
                 [Agent("far", "codex", "A", "a2a", {"planner", "evaluator"})
                    EXCEPT !.endpoint = "e1"]>>,
   targets |-> {}]

Kimi == [verified |-> TRUE, published |-> TRUE, command |-> "kimi acp",
         personas |-> {"generator", "evaluator"}]

Vm(contract, command) == [contract |-> contract, tool |-> "kimi", command |-> command]

Far(family) == [runner |-> "far", tool |-> "codex", family |-> family, integration |-> "codex",
                adapter |-> A("codex", "codex", family, "argv")]

MCInstalled ==
  [p \in {Registry, Provider, Mirror, Remote("e1"), Remote("e2"), Adapter("codex"), Adapter("codex-b"),
          Adapter("kimi"), Manifest("project", "kimi"), Manifest("app", "kimi")} |->
     CASE p = Registry -> R(1, "e1")
       [] p = Provider -> Vm("c1", "kimi acp")
       [] p = Mirror -> TRUE
       [] p = Remote("e1") -> Far("A")
       [] p = Remote("e2") -> [Far("B") EXCEPT !.runner = "other"]
       [] p = Adapter("codex") -> A("codex", "codex", "A", "argv")
       [] p = Adapter("codex-b") -> A("codex-b", "codex", "B", "argv")
       [] p = Adapter("kimi") -> A("kimi", "kimi", "B", "argv")
       [] OTHER -> Kimi]

MCEdits ==
  {<<Registry, R(1, "e1")>>, <<Registry, R(3, "e2")>>, <<Registry, MCLegacy>>,
   <<Adapter("codex"), A("codex", "codex", "A", "argv")>>,
   <<Adapter("codex"), A("codex", "codex", "A", "other argv")>>,
   <<Manifest("project", "kimi"), [Kimi EXCEPT !.command = "kimi other"]>>,
   <<Provider, Vm("c2", "kimi acp")>>, <<Provider, Vm("c1", "kimi other")>>,
   <<Mirror, FALSE>>, <<Remote("e1"), Far("B")>>}

Tool(tool, invocation) == [tool |-> tool, invocation |-> invocation]

MCBindings ==
  {[planner |-> None, generator |-> Tool("codex", "local-cli"),
    evaluator |-> Tool("kimi", "subagent")],
   [planner |-> Tool("codex", "a2a"), generator |-> Tool("kimi", "subagent"),
    evaluator |-> Tool("codex", "a2a")]}

Call(program, role, agent) == [program |-> program, role |-> role, agent |-> agent]

MCRequests ==
  {Call("dispatch-run", "generator", <<"local-cli", "codex", "generator">>),
   Call("sandbox-profile", "generator", <<"local-cli", "codex-b", "generator">>),
   Call("dispatch-run", "evaluator", <<"subagent", "kimi", "evaluator">>),
   Call("dispatch-run", "generator", <<"subagent", "kimi", "generator">>),
   Call("a2a-client", "evaluator", <<"a2a", "far", "evaluator">>),
   Call("dispatch-run", "generator", <<"agent", "codex", "any">>),
   Call("dispatch-run", "evaluator", <<"agent", "codex", "any">>),
   Call("a2a-client", "evaluator", <<"agent", "far", "any">>)}

MCRank == [id \in {"codex", "codex-b", "far", "kimi", "host"} |->
             CASE id = "codex" -> 1 [] id = "codex-b" -> 2 [] id = "far" -> 3
               [] id = "host" -> 4 [] OTHER -> 5]
=============================================================================
