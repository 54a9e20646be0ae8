-------------------------- MODULE MCQuizLifecycle ---------------------------
(* Instance for TLC: quizzes are interchangeable.                            *)
EXTENDS QuizLifecycle, TLC

Interchangeable == Permutations(Quiz)

=============================================================================
