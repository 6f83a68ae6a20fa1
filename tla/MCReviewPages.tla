--------------------------- MODULE MCReviewPages ----------------------------
(* Tours for model checking ReviewPages: every query is followed in one, the  *)
(* lists of evaluations with two of them, the others with one and a report.   *)
EXTENDS ReviewPages

Tour(pages, key, evaluations, number, retries) ==
  [pages |-> pages, keys |-> {key},
   evaluations |-> evaluations, reports |-> number, updates |-> retries]

MCTours ==
  {Tour({"evaluations"}, EvaluationStats, 2, 0, 0),
   Tour({"evaluations", "queues"}, EvaluationStats, 1, 0, 1),
   Tour({"reports", "queues"}, ReportStats, 1, 1, 1),
   Tour({"dashboard"}, <<"dashboardStats">>, 1, 1, 1),
   Tour({"dashboard"}, <<"pendingEvaluations">>, 2, 0, 0),
   Tour({"dashboard"}, <<"recentReports">>, 1, 1, 1),
   Tour({"queues"}, <<"queues">>, 1, 1, 0),
   Tour({"queues"}, <<"recent-messages">>, 1, 1, 0)}

=============================================================================
