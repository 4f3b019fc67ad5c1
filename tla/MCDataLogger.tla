----------------------------- MODULE MCDataLogger -----------------------------
(* Every topic, a topic twice under two names, an unknown one, both styles. *)
EXTENDS DataLogger

Topic(name) == [prefix |-> "", name |-> name]
Once(topics, full, rosout) ==
    [topics |-> topics, full |-> full, rosout |-> rosout, runs |-> 1]

MCSettings ==
    {Once(<<Topic(name)>>, FALSE, FALSE) : name \in {"devimu", "hc_sentence", "heading"}}
    \cup {Once(<<Topic("unknown"), Topic(name)>>, TRUE, FALSE) : name \in {"odometry", "velocity"}}
    \cup {Once(<<Topic("nmea_sentence")>>, TRUE, TRUE)}
    \cup {Once(<<Topic("devpvt"), [prefix |-> "/chcnav/", name |-> "devpvt"]>>, FALSE, FALSE),
          [Once(<<Topic("bestpos")>>, TRUE, FALSE) EXCEPT !.runs = 2]}
=============================================================================
