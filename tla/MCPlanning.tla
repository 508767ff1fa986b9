---------------------------- MODULE MCPlanning ----------------------------
EXTENDS Planning

Task(id, deps) ==
    [id |-> id, deps |-> deps, agent |-> "backend", capabilities |-> {"api"}, domains |-> {"core"}]

MCNotAPlan == <<>>

\* a diamond whose last task comes first, two tasks of one domain beside each other
Diamond == <<Task("d", <<"b", "c">>), Task("b", <<"a">>), Task("c", <<"a">>), Task("a", <<>>)>>
\* a chain with a shortcut
Shortcut == <<Task("c", <<"a", "b">>), Task("a", <<>>), Task("b", <<"a">>)>>
Circle == <<Task("a", <<"c">>), Task("b", <<"a">>), Task("c", <<"b">>)>>
\* a circle the first task leads to without being on it
Lasso == <<Task("a", <<"b">>), Task("b", <<"c">>), Task("c", <<"b">>)>>
SelfLoop == <<Task("a", <<"a">>)>>
Twice == <<Task("a", <<>>), Task("a", <<>>)>>
Unknown == <<Task("a", <<"x">>)>>
Reviews == <<[Task("a", <<>>) EXCEPT !.agent = "reviewer"]>>
Incapable == <<[Task("a", <<>>) EXCEPT !.capabilities = {"magic"}]>>

\* No list of dependencies has duplicates: normalizeStringList drops them.
Valid == {Diamond, Shortcut}
MCGraphs == Valid \cup {Circle, Lasso, SelfLoop, Twice, Unknown, Reviews, Incapable}

\* Nothing usable, one object, or two of which at most one is valid first.
MCAnswers ==
    {<<>>} \cup {<<o>> : o \in MCGraphs \cup {MCNotAPlan}}
      \cup {<<o, p>> : o \in {Circle, Lasso, Reviews, MCNotAPlan, Shortcut}, p \in {Diamond, Circle}}

\* delays that fit, and a base delay above the cap
MCDelays == {[base |-> 2, max |-> 5], [base |-> 7, max |-> 5]}

MCFailures ==
    {[text |-> {"rate_limit", "authentication"}, hint |-> {9}],
     [text |-> {"timeout", "configuration"}, hint |-> {}],
     [text |-> {"authentication"}, hint |-> {3}],
     [text |-> {}, hint |-> {0}],
     [text |-> {}, hint |-> {}]}
===========================================================================
