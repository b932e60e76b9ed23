------------------------------ MODULE MCGraphRun ------------------------------
(* Small graphs that make the reducer's hard cases happen. *)
EXTENDS GraphRun

Step(n, attempts, reads, writes) ==
    [kind |-> "step", name |-> n, attempts |-> attempts, reads |-> reads, writes |-> writes]
Check(n, attempts, reads, writes) ==
    [kind |-> "verifier", name |-> n, attempts |-> attempts, reads |-> reads, writes |-> writes]
Seqn(n, children, promotes) ==
    [kind |-> "seq", name |-> n, children |-> children, promotes |-> promotes, optional |-> promotes]
Choice(n, when, then, otherwise) ==
    [kind |-> "choice", name |-> n, branches |-> <<[when |-> when, node |-> then]>>,
     otherwise |-> otherwise, promotes |-> {"a", "b"}, optional |-> {"a", "b"}]
Par(n, join, branches, promotes) ==
    [kind |-> "par", name |-> n, join |-> join, branches |-> branches, promotes |-> promotes]
Loop(n, until, max, body, promotes) ==
    [kind |-> "loop", name |-> n, until |-> until, max |-> max, body |-> body,
     promotes |-> promotes, optional |-> promotes]
MapOver(n, items, max, body, promotes) ==
    [kind |-> "map", name |-> n, items |-> items, max |-> max, body |-> body,
     promotes |-> promotes, optional |-> {}]
Succeed(reads) == [kind |-> "succeed", name |-> "done", reads |-> reads]
Fail(n) == [kind |-> "fail", name |-> n, reason |-> n]

In(node, field, labels) == [kind |-> "in", value |-> [node |-> node, field |-> field], labels |-> labels]
Yes(node) == In(node, "signal", {"yes"})
AllJoin == [kind |-> "all"]
AnyJoin == [kind |-> "any"]
Quorum(k) == [kind |-> "quorum", count |-> k]
First(when) == [kind |-> "first", when |-> when]

\* Two reviewers race; whoever says yes first decides.
Race ==
    Seqn("root", <<
        Par("race", First([kind |-> "any", guards |-> {Yes("v1"), Yes("v2")}]),
            <<Check("v1", 2, {}, {"a"}), Check("v2", 1, {}, {"a"})>>, {"a"}),
        Choice("route", In("race", "raced", {"satisfied"}), Step("use", 1, {"a"}, {"b"}), Fail("refused")),
        Succeed({"a", "b"})>>, {})

\* Two of three, and the next step reads what the winners wrote.
TwoOfThree ==
    Seqn("root", <<
        Par("vote", Quorum(2),
            <<Step("s1", 1, {}, {"a"}), Step("s2", 2, {}, {"b"}), Step("s3", 1, {}, {"a"})>>, {"a", "b"}),
        Step("tally", 1, {"a", "b"}, {}),
        Succeed({"a", "b"})>>, {})

\* A race whose branches are themselves a sequence and a join that leaves a loser.
Nested ==
    Seqn("root", <<
        Par("outer", AnyJoin,
            <<Seqn("chain", <<Step("s1", 1, {}, {"a"}), Step("s2", 1, {"a"}, {"b"})>>, {"b"}),
              Par("inner", AnyJoin, <<Step("s3", 2, {}, {"b"}), Check("v4", 1, {}, {"b"})>>, {"b"})>>, {"b"}),
        Succeed({"b"})>>, {})

\* Work and two reviews, repeated until the first reviewer agrees.
Review ==
    Seqn("root", <<
        Loop("rounds", Yes("v1"), 2,
            Seqn("round", <<
                Step("work", 2, {"b"}, {"a"}),
                Par("reviews", AllJoin, <<Check("v1", 1, {"a"}, {}), Check("v2", 1, {"a"}, {"b"})>>, {"b"})>>,
                {"a", "b"}), {"a", "b"}),
        Choice("route", In("rounds", "terminated", {"converged"}), Succeed({"a"}), Fail("exhausted"))>>, {})

\* One check per item; a rejected item ends the graph while others still run.
Items ==
    Seqn("root", <<
        MapOver("each", 2, 2,
            Seqn("item", <<
                Check("v", 2, {}, {"a"}),
                Choice("verdict", Yes("v"), Step("apply", 1, {"a"}, {"b"}), Fail("rejected"))>>, {"a", "b"}),
            {"a", "b"}),
        MapOver("tooMany", 2, 1, Step("never", 1, {}, {"a"}), {"a"}),
        Choice("some", [kind |-> "k_of_map", count |-> 2,
                        value |-> [node |-> "v", field |-> "signal"], labels |-> {"yes"}],
               Succeed({"a", "b"}), Fail("overflowed"))>>, {})

\* Two races at once: while one's loser is awaited, both branches of the other may finish.
TwoRaces ==
    Seqn("root", <<
        Par("both", AllJoin,
            <<Par("left", AnyJoin, <<Step("s1", 1, {}, {"a"}), Step("s2", 1, {}, {"a"})>>, {"a"}),
              Par("right", AnyJoin, <<Step("s3", 1, {}, {"b"}), Step("s4", 1, {}, {"b"})>>, {"b"})>>, {"a", "b"}),
        Step("use", 1, {"a", "b"}, {}),
        Succeed({"a", "b"})>>, {})

\* A race repeated after a repair: the loop's only exit is the satisfied race.
RacedReview ==
    Seqn("root", <<
        Loop("rounds", Never, 2,
            Seqn("round", <<
                Par("race", First([kind |-> "any", guards |-> {Yes("v1"), Yes("v2")}]),
                    <<Check("v1", 1, {}, {}), Check("v2", 1, {}, {})>>, {}),
                Choice("route", In("race", "raced", {"satisfied"}), Succeed({}), Step("repair", 1, {}, {"a"}))>>,
                {"a"}), {"a"}),
        Fail("exhausted")>>, {})

\* A rejected item ends its map, but the map is a branch of a join that goes on, here to
\* a delivery.
Abandoned ==
    Seqn("root", <<
        Par("both", AllJoin,
            <<Step("s", 1, {}, {}),
              MapOver("each", 2, 2,
                  Seqn("item", <<Check("v", 1, {}, {}),
                                 Choice("verdict", Yes("v"), Step("apply", 1, {}, {}), Fail("rejected"))>>, {}),
                  {})>>, {}),
        Check("deliver", 1, {}, {}),
        Succeed({})>>, {})

\* The winner of a race is delivered, with a retry, and judged by a decision.
Delivered ==
    Seqn("root", <<
        Par("race", AnyJoin, <<Step("s1", 2, {}, {"a"}), Step("s2", 1, {}, {"a"})>>, {"a"}),
        Check("deliver", 2, {"a"}, {}),
        Check("judge", 1, {"a"}, {}),
        Choice("route", Yes("judge"), Succeed({"a"}), Fail("refused"))>>, {})

\* A delivery repeated until it succeeds, and a writer that may follow it.
Redelivered ==
    Seqn("root", <<
        Loop("rounds", Yes("deliver"), 2,
            Seqn("round", <<Step("work", 1, {}, {"a"}), Check("deliver", 2, {"a"}, {"b"})>>, {"a", "b"}), {"a", "b"}),
        Choice("polish", Yes("deliver"), Succeed({"a"}), Step("tidy", 1, {"a"}, {"b"})),
        Succeed({"a", "b"})>>, {})

\* A writer beside a delivery: refused by admission.
Overlapping ==
    Seqn("root", <<
        Par("both", AllJoin, <<Step("s1", 1, {}, {"a"}), Check("deliver", 1, {}, {})>>, {"a"}),
        Succeed({"a"})>>, {})

SoundGraphs == {Race, TwoOfThree, Nested, TwoRaces, Review, Items, Delivered, Redelivered, Overlapping}
RacedLoop == {RacedReview}
AbandonedMap == {Abandoned}
=============================================================================
