\* Two queries at once and a third, over two corpora: one waits for the mutex
\* while another fails, the corpus is replaced and a later query begins.
SPECIFICATION Spec
CONSTANTS
  Queries = {j1, j2}
  NoQuery = NoQuery
  Texts = {a}
  NoText = NoText
  MaxVersion = 2
  MaxQueries = 3
INVARIANTS
  IndexServesItsVersion
  DisabledAfterTwoErrors
PROPERTIES
  QueriesEnd
