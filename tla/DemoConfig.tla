------------------------------ MODULE DemoConfig ------------------------------
(***************************************************************************)
(* The table of demos: whom each talks to, what it replays and how fast,   *)
(* and what its chat holds before anything is said.  Time scales are in    *)
(* halves.  A component of a surface is a record, see A2ui; the texts of a *)
(* card are left out, its components are not.                              *)
(***************************************************************************)
EXTENDS Integers, Sequences

CONSTANT None

DEMO_HOTKEYS == <<"0", "1", "2", "3", "4", "5", "7", "d", "r", "l", "a", "s", "d">>
DEMO_IDS == <<"Sandbox", "1", "2", "3", "4", "5a", "5b", "7a", "7b">>

(* demoIdFromHotkey: 5 and 7 stand for two demos each; the other digits are
   found by their place, which letters have too. *)
HotkeyDemo(key, shift) ==
    LET place == CHOOSE i \in DOMAIN DEMO_HOTKEYS : DEMO_HOTKEYS[i] = key
    IN  CASE key = "5" -> IF shift THEN "5b" ELSE "5a"
          [] key = "7" -> IF shift THEN "7b" ELSE "7a"
          [] key \in {"d", "r"} -> None
          [] OTHER -> IF place \in DOMAIN DEMO_IDS THEN DEMO_IDS[place] ELSE None

-----------------------------------------------------------------------------
(* The card that four demos begin with. *)

Part(id, type, kids) ==
    [id |-> id, type |-> type, kids |-> kids, tabs |-> <<>>, entry |-> None,
     content |-> None, action |-> IF type = "Button" THEN "run_simulation" ELSE "",
     wire |-> IF type \in {"Card", "Button"} THEN "child" ELSE "explicitList"]

Text(id) == Part(id, "Text", <<>>)

(* A line of the card: a label and a value in a row. *)
Line(label, value, row) == <<Text(label), Text(value), Part(row, "Row", <<label, value>>)>>

PlaceholderCard ==
    Line("tag", "sim-meta", "tag-row")
    \o <<Text("title"), Part("left-col", "Column", <<"tag-row", "title">>),
         Text("score-num"), Text("score-lbl"),
         Part("score-col", "Column", <<"score-num", "score-lbl">>),
         Part("header", "Row", <<"left-col", "score-col">>)>>
    \o Line("dist-l", "dist-v", "dist-r") \o Line("part-l", "part-v", "part-r")
    \o <<Part("d1", "Divider", <<>>)>>
    \o Line("safe-l", "safe-v", "safe-r") \o Line("run-l", "run-v", "run-r")
    \o Line("city-l", "city-v", "city-r")
    \o <<Part("d2", "Divider", <<>>), Text("rerun-txt"),
         Part("run-btn", "Button", <<"rerun-txt">>), Part("buttons-r", "Row", <<"run-btn">>),
         Part("content", "Column", <<"header", "dist-r", "part-r", "d1", "safe-r",
                                     "run-r", "city-r", "d2", "buttons-r">>),
         Part("card", "Card", <<"content">>)>>

-----------------------------------------------------------------------------
(* The demos.  What an entry does not set is as here. *)

Demo(agent, recordings, timeScale) ==
    [agent |-> agent, recordings |-> recordings, timeScale |-> timeScale,
     route |-> None, prompt |-> "", card |-> <<>>, build |-> FALSE, security |-> FALSE]

Marathon == "Plan a marathon in Las Vegas for 10,000 runners"
GlowSticks == "Can we increase the budget so everyone gets glow sticks"

WithCard(d) == [d EXCEPT !.route = "cachedRoute01", !.card = PlaceholderCard]

Sandbox == WithCard(Demo("planner_with_memory", 1, 2))
Demo1 == [Demo("planner", 1, 4) EXCEPT !.prompt = Marathon, !.build = TRUE]
Demo2 == [Demo("planner_with_eval", 2, 4) EXCEPT !.prompt = Marathon]
Demo3 == [Demo("planner_with_memory", 2, 12) EXCEPT !.prompt = Marathon,
                                                    !.route = "cachedRoute03"]
Demo4 == WithCard(Demo("simulator_with_failure", 1, 6))
Demo5a == WithCard(Demo("simulator_with_failure", 1, 6))
Demo5b == WithCard(Demo("planner_with_memory", 1, 6))
Demo7a == [Demo("planner_with_memory", 1, 3) EXCEPT !.prompt = GlowSticks, !.security = TRUE]
Demo7b == [Demo("planner_with_memory", 1, 1) EXCEPT !.prompt = GlowSticks, !.security = TRUE]

DEMO_CONFIG ==
    [id \in {DEMO_IDS[i] : i \in DOMAIN DEMO_IDS} |->
        CASE id = "Sandbox" -> Sandbox [] id = "1" -> Demo1 [] id = "2" -> Demo2
          [] id = "3" -> Demo3 [] id = "4" -> Demo4 [] id = "5a" -> Demo5a
          [] id = "5b" -> Demo5b [] id = "7a" -> Demo7a [] id = "7b" -> Demo7b]
=============================================================================
