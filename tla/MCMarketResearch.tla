--------------------------- MODULE MCMarketResearch ----------------------------
EXTENDS MarketResearchAgent

\* Two texts of titles and the URLs p and q, one of them spelled in three ways.
MCText == {"t", "u", "p", "q", "q/", "Q"}

MCSays == [text \in MCText |-> {"a title"}]

MCBare == [text \in MCText |-> IF text = "q/" THEN "q" ELSE text]

MCLower == [w \in MCText \cup {"Show", "Show HN", "show", "Hacker News", "a title", "titleline"} |->
              CASE w = "Show" -> "show" [] w = "Show HN" -> "show hn" [] w = "Q" -> "q" [] OTHER -> w]

P(title, url) == [title |-> title, url |-> url]

HN == {"^https://", "news.ycombinator.com"}
Bar == {"Hacker News", "show"}

MCBlank == [url |-> {}, header |-> {}, posts |-> <<>>]

\* "Show HN" with three posts, a comma in one title and in one URL; the front page, which has the site's header too,
\* and a header with the name of a class in it; a page not loaded; a foreign one.
MCPages == {MCBlank,
            [url |-> HN, header |-> Bar \cup {"Show HN"},
             posts |-> <<P(<<"t">>, <<"p">>), P(<<"t", "u">>, <<"q">>), P(<<"t">>, <<"p", "q/">>)>>],
            [url |-> HN, header |-> Bar, posts |-> <<P(<<"t">>, <<"p">>)>>],
            [url |-> HN, header |-> Bar \cup {"titleline"}, posts |-> <<P(<<"t">>, <<"p">>)>>],
            [url |-> {"^https://"}, header |-> {"a title"}, posts |-> <<>>]}

\* No JSON; two posts; the same post twice, in other spellings; a URL with a comma.
MCLLMAnswers == {<<>>, <<P(<<"u">>, <<"Q">>), P(<<"t">>, <<"p">>)>>, <<P(<<"t">>, <<"q/">>), P(<<"t", "u">>, <<"q">>)>>,
                 <<P(<<"u">>, <<"p", "q">>)>>}

MCAdditions == {P(<<"t">>, <<"q">>)}

MCOldFiles == {<<>>, <<P(<<"t", "u">>, <<"q">>), P(<<"t">>, <<"p">>)>>}
================================================================================
